---- MODULE Spec2Model ----
(***************************************************************************)
(* Replay views of the F1 data analyzer front end.                         *)
(*                                                                         *)
(* Four React components hold a replay state (currentIndex, isPlaying,     *)
(* replaySpeed) over a timeline that is fetched per session:               *)
(*   "CT"  CircuitTracker            (src/unnamed/part_005, lines 541-1002) *)
(*   "OLD" CircuitTracker, older     (src/unnamed/part_006)                 *)
(*   "RC"  RaceControlDashboard      (src/src/components/RaceControl...)    *)
(*   "WD"  WeatherDashboard          (src/unnamed/part_003)                 *)
(* "LW" is the WeatherDashboard of src/src/components, which only folds    *)
(* the events of its table into rows.                                      *)
(* App.tsx mounts one of them at a time; `view` says which one this        *)
(* behaviour is about.  The components declare the same replay state under *)
(* the same names, so the model keeps one variable per name.               *)
(*                                                                         *)
(* React is modelled at the grain of one commit: an action is one event    *)
(* handler, timer callback or promise continuation together with the       *)
(* re-render it causes and the effects whose dependencies changed          *)
(* (cleanup first, then the effect body), up to the fixpoint.  What is     *)
(* asynchronous in the code stays asynchronous in the model: fetch         *)
(* responses in flight (pending, pendingInfo), the interval timers         *)
(* (intervals) and the realtime channel (channel).                         *)
(* The one render in between that is kept is the message list a handler of *)
(* RaceControlDashboard set (renderedMessages).                            *)
(*                                                                         *)
(* Indices are 0-based as in the code: rows[i] of the code is Seq[i+1].    *)
(* Timestamps are modelled by the instant they denote (an integer).        *)
(***************************************************************************)
EXTENDS Integers, Sequences, FiniteSets, Bags, TLC

VARIABLES
  view,                 \* which component is mounted: "CT", "OLD", "RC" or "WD"
  mounted,              \* FALSE once the component was unmounted (or crashed)
  selectedSession,      \* 0 models null
  currentIndex,
  isPlaying,
  replaySpeed,
  intervals,            \* live setInterval timers, each with the values its callback closed over
  pending,              \* bag of position / message fetches in flight
  pendingInfo,          \* bag of session_drivers fetches in flight
  allPositions,         \* CT: filtered samples held
  driverInfo,           \* CT: session_drivers rows held
  driverHistory,        \* OLD: frames (each a sequence of samples)
  currentFramePositions,\* OLD
  allDriverPositions,   \* OLD: driver_number -> last known position
  circuitCoordinates,   \* OLD
  replayTimestamps,     \* OLD
  periodFilter,         \* RC, WD: "atual" or "historico"
  rows,                 \* RC, WD
  raceControlMessages,  \* RC
  renderedMessages,     \* RC: the list a handler set, rendered before the effects of
                        \* the commit ran (the list they left when it set none)
  currentMessage,       \* RC
  channel,              \* RC, WD: the realtime subscription, or NoChannel
  weatherData,          \* WD: the row displayed, or NoMessage for null / undefined
  temperatureHistory,   \* WD: the points of the temperature chart
  inputs,               \* history: session selections, period changes and live events so far
  last,                 \* history: the operation that produced this state
  run,                  \* history: ticks since the last play() with nothing else in between, -1 otherwise
  stopped,              \* history: a session switch or unmount happened and play() was not invoked since
  sought,               \* history: the timeline index the last operation asked for (reset, list selection), -1 otherwise
  rawPositions,         \* AN: the samples held; DATA: the rows a position fetch returned
  selectedDrivers,      \* AN: the driver numbers ticked, in the order they were added
  analyticsMode,        \* AN
  timeWindow,           \* AN: [start, end] in percent
  enhancedPositions,    \* AN: useMemo value
  heatmapData,          \* AN: useMemo value
  filteredPositions,    \* AN: useMemo value
  result,               \* DATA: what the continuation of the fetch stored
  showTrails,           \* CT
  trailLength,          \* CT
  sortedPoints,         \* CT, inside processedData: the deduplicated cells
  orderedPoints,        \* CT, inside processedData: the cells placed so far
  remaining,            \* CT, inside processedData: the cells not yet considered
  trackPath,            \* CT: processedData.trackPath, the points of the path
  pathComputed          \* whether the last commit ran the body of processedData

vars == <<view, mounted, selectedSession, currentIndex, isPlaying, replaySpeed,
          intervals, pending, pendingInfo, allPositions, driverInfo,
          driverHistory, currentFramePositions, allDriverPositions,
          circuitCoordinates, replayTimestamps,
          periodFilter, rows, raceControlMessages, renderedMessages, currentMessage, channel,
          weatherData, temperatureHistory, inputs, last, run, stopped, sought,
          rawPositions, selectedDrivers, analyticsMode, timeWindow,
          enhancedPositions, heatmapData, filteredPositions, result,
          showTrails, trailLength,
          sortedPoints, orderedPoints, remaining, trackPath, pathComputed>>

ctVars == <<allPositions>>
oldVars == <<driverHistory, currentFramePositions, allDriverPositions,
            circuitCoordinates, replayTimestamps>>
rcVars == <<periodFilter, rows, raceControlMessages, renderedMessages, currentMessage, channel>>
wdVars == <<weatherData, temperatureHistory>>
trailVars == <<showTrails, trailLength>>
loopVars == <<sortedPoints, orderedPoints, remaining>>
memoVars == <<trackPath, pathComputed>>
anVars == <<rawPositions, selectedDrivers, analyticsMode, timeWindow,
           enhancedPositions, heatmapData, filteredPositions, result>>

----------------------------------------------------------------------------
(* Bounds of the model and constants of the program *)

NumSessions == 2
MaxFrames == 3
MaxInputs == 2
MaxRows == 2

Sessions == 1..NumSessions
Speeds == {1, 2}
Drivers == <<"1", "44">>
NULL == -1
PeriodFilters == {"atual", "historico"}
NoMessage == [id |-> 0, session_id |-> 0, timestamp |-> 0]
NoChannel == [session |-> 0, periodFilter |-> "atual"]
WindowHalf == 5
gridSize == 200
MaxSamples == 3

\* processedData before any sample is held: the early return for an empty
\* allPositions gives trackPath ''
NoPath ==
  /\ sortedPoints = << >>
  /\ orderedPoints = << >>
  /\ remaining = << >>
  /\ trackPath = << >>
  /\ pathComputed = FALSE

\* the analytics and sample-pipeline variables of a view that has neither
NoAnalytics ==
  /\ rawPositions = << >>
  /\ selectedDrivers = << >>
  /\ analyticsMode = "positions"
  /\ timeWindow = [start |-> 0, end |-> 100]
  /\ enhancedPositions = << >>
  /\ heatmapData = << >>
  /\ filteredPositions = << >>
  /\ result = [op |-> "none"]
  /\ showTrails = TRUE
  /\ trailLength = 20
  /\ NoPath
ListMax == 10

Min(a, b) == IF a < b THEN a ELSE b
Max(a, b) == IF a > b THEN a ELSE b

\* clamp(k, lo, hi) of the specification
Clamp(k, lo, hi) == Max(lo, Min(k, hi))

----------------------------------------------------------------------------
(* The data the server returns *)

\* car_positions of session s when it holds f timestamps, as the server
\* returns them: driver "1" has a usable sample at every timestamp; driver
\* "44" has a usable sample at the even timestamps and a null x at the odd
\* ones, except that in session 1 its first sample is the (0,0) placeholder.
RawSample(s, d, t) ==
  [session_id |-> s, driver_number |-> Drivers[d], timestamp |-> t,
   x_coord |-> IF d = 1 THEN 100 * t + 3
               ELSE IF t = 1 /\ s = 1 THEN 0
               ELSE IF t % 2 = 1 THEN NULL ELSE 100 * t + 58,
   y_coord |-> IF d = 2 /\ t = 1 /\ s = 1 THEN 0 ELSE 100 * s + t]

RECURSIVE ServerPositions(_, _)
ServerPositions(s, f) ==
  IF f = 0 THEN << >>
  ELSE ServerPositions(s, f - 1) \o << RawSample(s, 1, f), RawSample(s, 2, f) >>

\* session_drivers of session s
ServerDrivers(s) ==
  [d \in 1..Len(Drivers) |-> [session_id |-> s, driver_number |-> Drivers[d]]]

\* race_control_messages of session s when it holds n rows, ordered by timestamp
ServerMessages(s, n) ==
  [i \in 1..n |-> [id |-> 10 * s + i, session_id |-> s, timestamp |-> i]]

----------------------------------------------------------------------------
(* Array helpers *)

RECURSIVE SortByTimestamp(_)
\* Array.prototype.sort((a, b) => time(a) - time(b)): a stable sort
SortByTimestamp(seq) ==
  IF Len(seq) <= 1 THEN seq
  ELSE LET init == SortByTimestamp(SubSeq(seq, 1, Len(seq) - 1))
           x == seq[Len(seq)]
           n == Cardinality({i \in 1..Len(init) : init[i].timestamp <= x.timestamp})
       IN SubSeq(init, 1, n) \o <<x>> \o SubSeq(init, n + 1, Len(init))

RECURSIVE SortedInts(_)
SortedInts(S) ==
  IF S = {} THEN << >>
  ELSE LET m == CHOOSE x \in S : \A y \in S : x <= y
       IN <<m>> \o SortedInts(S \ {m})

\* arr.slice(start, end) with 0 <= start
Slice(seq, start, end) == SubSeq(seq, start + 1, Min(end, Len(seq)))

Reverse(seq) == [i \in 1..Len(seq) |-> seq[Len(seq) + 1 - i]]

\* arr.findIndex(r => r.id === id): 0-based, -1 when absent
FindIndex(seq, id) ==
  IF \E i \in 1..Len(seq) : seq[i].id = id
    THEN (CHOOSE i \in 1..Len(seq) :
            seq[i].id = id /\ \A j \in 1..(i - 1) : seq[j].id # id) - 1
    ELSE -1

----------------------------------------------------------------------------
(* Derived data of the circuit views *)

\* SampleFilter of CircuitTracker
ValidPosition(pos) ==
  /\ pos.x_coord # NULL
  /\ pos.y_coord # NULL
  /\ ~(pos.x_coord = 0 /\ pos.y_coord = 0)

\* timestampGroups of CircuitTracker: one frame per distinct timestamp, ascending
TimestampGroups(ps) ==
  LET ts == SortedInts({ps[i].timestamp : i \in 1..Len(ps)})
  IN [k \in 1..Len(ts) |->
        [timestamp |-> ts[k],
         positions |-> SelectSeq(ps, LAMBDA p : p.timestamp = ts[k])]]

\* history of the older CircuitTracker: the frames of the unfiltered data
HistoryOf(data) ==
  LET g == TimestampGroups(data) IN [k \in 1..Len(g) |-> g[k].positions]

\* the number of frames of the timeline the mounted view replays
FrameCount ==
  CASE view = "CT" -> Len(TimestampGroups(allPositions))
    [] view = "OLD" -> Len(driverHistory)
    [] OTHER -> Len(rows)

\* the derived ReplayState.status
Status ==
  IF isPlaying THEN "Playing" ELSE IF FrameCount > 0 THEN "Paused" ELSE "Idle"

----------------------------------------------------------------------------
(* The replay effect: one interval per effect run, cleared by its cleanup *)

\* the interval created by the effect run that is current
Held(ivs) == {iv \in ivs : \A o \in ivs : o.id <= iv.id}

ReplayCleanup_Leak(ivs) == ivs

\* return () => clearInterval(interval)
ReplayCleanup(ivs) == ivs \ Held(ivs)

ReplaySetup_Always(ivs, playing, len, speed, data) ==
  IF len > 0
    THEN ivs \cup {[id |-> Cardinality(ivs) + 1, speed |-> speed, data |-> data]}
    ELSE ivs

\* if (isPlaying && length > 0) { const interval = setInterval(..., 1000 / replaySpeed) }
\* data: what the callback closes over (the timeline it reads)
ReplaySetup(ivs, playing, len, speed, data) ==
  IF playing /\ len > 0
    THEN ivs \cup {[id |-> Cardinality(ivs) + 1, speed |-> speed, data |-> data]}
    ELSE ivs

\* React runs the cleanup of the previous run before the effect body
ReplayEffect(ivs, playing, len, speed, data) ==
  ReplaySetup(ReplayCleanup(ivs), playing, len, speed, data)

AddToBag(b, e) == b (+) SetToBag({e})
RemoveFromBag(b, e) == b (-) SetToBag({e})

\* history variables
Inputs == {"select", "period", "upsert", "delete", "insert", "update"}
RunCap == MaxFrames + 2
NoteArg(op, k) ==
  /\ last' = op
  /\ sought' = k
  /\ run' = IF op = "play" /\ ~isPlaying /\ FrameCount > 0 THEN 0
            ELSE IF op = "tick" /\ run >= 0 THEN Min(run + 1, RunCap)
            ELSE -1
  /\ stopped' = IF op \in {"select", "unmount"} THEN TRUE
                ELSE IF op = "play" THEN FALSE
                ELSE stopped
  /\ inputs' = IF op \in Inputs THEN inputs + 1 ELSE inputs

Note(op) == NoteArg(op, -1)

\* the user and the server act at most MaxInputs times on the session, the
\* period filter and the table
CanInput == inputs < MaxInputs

----------------------------------------------------------------------------
(* CircuitTracker (src/unnamed/part_005) *)

----------------------------------------------------------------------------
(* processedData of CircuitTracker: the path of the track *)

\* Math.round(v / g) * g for an integer v (halves round up)
RoundTo(v, g) == ((2 * v + g) \div (2 * g)) * g

\* the side of a cell of the track, and the distance from which the nearest
\* cell is taken to start a new section of the track
CellSize == 50
SectionGap == 500

\* { x: discreteX, y: discreteY }
TrackPoint(pos) == [x |-> RoundTo(pos.x_coord, CellSize), y |-> RoundTo(pos.y_coord, CellSize)]

RECURSIVE TrackPointsFrom(_, _, _)
\* allPositions.forEach from row index on, cells being the values of the Map:
\* a Map keeps a key at the place of its first insertion
TrackPointsFrom(ps, index, cells) ==
  IF index > Len(ps) THEN cells
  ELSE TrackPointsFrom(ps, index + 1,
         IF ps[index].x_coord = NULL \/ ps[index].y_coord = NULL THEN cells
         ELSE IF \E k \in 1..Len(cells) : cells[k] = TrackPoint(ps[index]) THEN cells
         ELSE Append(cells, TrackPoint(ps[index])))

\* Array.from(trackPoints.values()): the cells in the order of their first sample
TrackPoints(ps) == TrackPointsFrom(ps, 1, << >>)

\* the square of Math.sqrt(dx^2 + dy^2); the code compares the roots, and
\* the square root is strictly increasing on these integers
SquaredDistance(a, b) == (a.x - b.x) * (a.x - b.x) + (a.y - b.y) * (a.y - b.y)

RECURSIVE NearestFrom(_, _, _, _)
\* remaining.forEach from index on with if (distance < nearestDistance);
\* nearest: the index kept so far, 0 while nearestDistance is Infinity
NearestFrom(lastPoint, rem, index, nearest) ==
  IF index > Len(rem) THEN nearest
  ELSE NearestFrom(lastPoint, rem, index + 1,
         IF nearest = 0 THEN index
         ELSE IF SquaredDistance(rem[index], lastPoint) < SquaredDistance(rem[nearest], lastPoint)
           THEN index
         ELSE nearest)

NearestIndex_First(lastPoint, rem) == 1

\* nearestIndex after the forEach: the first index at the least distance
NearestIndex(lastPoint, rem) == NearestFrom(lastPoint, rem, 1, 0)

Placed_Always(point, lastPoint) == TRUE

\* if (nearestDistance < 500)
Placed(point, lastPoint) == SquaredDistance(point, lastPoint) < SectionGap * SectionGap

\* if (nearestDistance < 500) orderedPoints.push(remaining[nearestIndex])
PlaceAt(ordered, rem, n) ==
  IF Placed(rem[n], ordered[Len(ordered)]) THEN Append(ordered, rem[n]) ELSE ordered

SpliceAt_First(rem, n) == Tail(rem)

\* remaining.splice(nearestIndex, 1)
SpliceAt(rem, n) == SubSeq(rem, 1, n - 1) \o SubSeq(rem, n + 1, Len(rem))

\* one turn of while (remaining.length > 0): orderedPoints after it
StepOrdered(ordered, rem) ==
  PlaceAt(ordered, rem, NearestIndex(ordered[Len(ordered)], rem))

\* one turn of the loop: remaining after it
StepRemaining(ordered, rem) ==
  SpliceAt(rem, NearestIndex(ordered[Len(ordered)], rem))

RECURSIVE OrderPoints(_, _)
RECURSIVE OrderFrom(_, _, _)
OrderFrom(ordered, rem, n) == OrderPoints(PlaceAt(ordered, rem, n), SpliceAt(rem, n))

\* the loop
OrderPoints(ordered, rem) ==
  IF rem = << >> THEN ordered
  ELSE OrderFrom(ordered, rem, NearestIndex(ordered[Len(ordered)], rem))

\* orderedPoints.length > 1 ? `M x y L x y ... Z` : '': the points the
\* string names, in its order
PathOf(ordered) == IF Len(ordered) > 1 THEN ordered ELSE << >>

\* the body of processedData from sortedPoints on
PathOfCells(cells) ==
  IF cells = << >> THEN << >> ELSE PathOf(OrderPoints(<<cells[1]>>, Tail(cells)))

\* processedData.trackPath
TrackPath(ps) == IF ps = << >> THEN << >> ELSE PathOfCells(TrackPoints(ps))

\* the arrays setAllPositions can store: the filtered response of a session
HeldSamples ==
  {SelectSeq(ServerPositions(s, f), ValidPosition) : s \in Sessions, f \in 0..MaxFrames}

\* processedData.trackPath of each of them
TrackPaths == [ps \in HeldSamples |-> TrackPath(ps)]

PathDeps_PerFrame == <<allPositions, currentIndex>>

\* the dependencies of the useMemo of processedData
PathDeps == <<allPositions>>

\* what a commit does to processedData: its body runs when a dependency
\* changed; fresh: the commit stored a newly built array in allPositions
ProcessedDataMemo(fresh) ==
  /\ pathComputed' = (view' = "CT" /\ mounted' /\ (fresh \/ PathDeps' # PathDeps))
  /\ trackPath' = IF pathComputed' THEN TrackPaths[allPositions'] ELSE trackPath

ProcessedData == ProcessedDataMemo(FALSE)

----------------------------------------------------------------------------
(* The replay of CircuitTracker *)

InitCT ==
  /\ view = "CT"
  /\ mounted = TRUE
  /\ selectedSession = 1
  /\ currentIndex = 0
  /\ isPlaying = FALSE
  /\ replaySpeed = 1
  /\ intervals = {}
  /\ pending = SetToBag({[session |-> 1]})
  /\ pendingInfo = SetToBag({[session |-> 1]})
  /\ allPositions = << >>
  /\ driverInfo = << >>
  /\ driverHistory = << >>
  /\ currentFramePositions = << >>
  /\ allDriverPositions = << >>
  /\ circuitCoordinates = << >>
  /\ replayTimestamps = << >>
  /\ periodFilter = "atual"
  /\ rows = << >>
  /\ raceControlMessages = << >>
  /\ renderedMessages = << >>
  /\ currentMessage = NoMessage
  /\ channel = NoChannel
  /\ weatherData = NoMessage
  /\ temperatureHistory = << >>
  /\ inputs = 0
  /\ last = "mount"
  /\ run = -1
  /\ stopped = FALSE
  /\ sought = -1
  /\ NoAnalytics

CTLen(ps) == Len(TimestampGroups(ps))

\* <select onChange={(e) => setSelectedSession(Number(e.target.value))}>, then the
\* two effects on [selectedSession]: fetchDriverInfo and fetchPositions
CT_SelectSession(s) ==
  /\ view = "CT" /\ mounted
  /\ s # selectedSession
  /\ CanInput
  /\ selectedSession' = s
  /\ pending' = AddToBag(pending, [session |-> s])
  /\ pendingInfo' = AddToBag(pendingInfo, [session |-> s])
  /\ Note("select")
  /\ UNCHANGED <<view, mounted, currentIndex, isPlaying, replaySpeed, intervals,
                 allPositions, driverInfo>>
  /\ UNCHANGED oldVars /\ UNCHANGED rcVars /\ UNCHANGED wdVars /\ UNCHANGED anVars /\ UNCHANGED trailVars /\ UNCHANGED loopVars
  /\ ProcessedData

\* the continuation of fetchPositions with data for session s holding f timestamps
CT_DeliverPositions(s, f) ==
  /\ view = "CT"
  /\ BagIn([session |-> s], pending)
  /\ pending' = RemoveFromBag(pending, [session |-> s])
  /\ IF mounted
       THEN LET data == ServerPositions(s, f)
                kept == SelectSeq(data, ValidPosition)
            IN /\ allPositions' = kept
               /\ currentIndex' = 0
               /\ isPlaying' = FALSE
               /\ intervals' = ReplayEffect(intervals, FALSE, CTLen(kept), replaySpeed, CTLen(kept))
               /\ Note("load")
       ELSE /\ UNCHANGED <<allPositions, currentIndex, isPlaying, intervals>>
            /\ Note("dropped")
  /\ UNCHANGED <<view, mounted, selectedSession, replaySpeed, pendingInfo, driverInfo>>
  /\ UNCHANGED oldVars /\ UNCHANGED rcVars /\ UNCHANGED wdVars /\ UNCHANGED anVars /\ UNCHANGED trailVars /\ UNCHANGED loopVars
  /\ ProcessedDataMemo(mounted)

\* the continuation of a fetch whose data is null (an error): if (data) fails
FetchFailed(s) ==
  /\ \E e \in BagToSet(pending) :
       /\ e.session = s
       /\ pending' = RemoveFromBag(pending, e)
  /\ Note("fetch_error")
  /\ UNCHANGED <<view, mounted, selectedSession, currentIndex, isPlaying, replaySpeed,
                 intervals, pendingInfo, allPositions, driverInfo>>
  /\ UNCHANGED oldVars /\ UNCHANGED rcVars /\ UNCHANGED wdVars /\ UNCHANGED anVars /\ UNCHANGED trailVars /\ UNCHANGED loopVars
  /\ ProcessedData

\* the continuation of fetchDriverInfo
DeliverDriverInfo(s) ==
  /\ view = "CT"
  /\ BagIn([session |-> s], pendingInfo)
  /\ pendingInfo' = RemoveFromBag(pendingInfo, [session |-> s])
  /\ driverInfo' = IF mounted THEN ServerDrivers(s) ELSE driverInfo
  /\ Note(IF mounted THEN "info" ELSE "dropped")
  /\ UNCHANGED <<view, mounted, selectedSession, currentIndex, isPlaying, replaySpeed,
                 intervals, pending, allPositions>>
  /\ UNCHANGED oldVars /\ UNCHANGED rcVars /\ UNCHANGED wdVars /\ UNCHANGED anVars /\ UNCHANGED trailVars /\ UNCHANGED loopVars
  /\ ProcessedData

\* const handlePlay = () => setIsPlaying(!isPlaying), then the replay effect
CT_HandlePlay ==
  /\ view = "CT" /\ mounted
  /\ isPlaying' = ~isPlaying
  /\ intervals' = ReplayEffect(intervals, ~isPlaying, CTLen(allPositions), replaySpeed,
                               CTLen(allPositions))
  /\ Note(IF isPlaying THEN "pause" ELSE "play")
  /\ UNCHANGED <<view, mounted, selectedSession, currentIndex, replaySpeed, pending,
                 pendingInfo, allPositions, driverInfo>>
  /\ UNCHANGED oldVars /\ UNCHANGED rcVars /\ UNCHANGED wdVars /\ UNCHANGED anVars /\ UNCHANGED trailVars /\ UNCHANGED loopVars
  /\ ProcessedData

\* const handlePrevious = () => setCurrentIndex(Math.max(0, currentIndex - 1));
\* the button is disabled={currentIndex === 0}
CT_HandlePrevious ==
  /\ view = "CT" /\ mounted
  /\ currentIndex # 0
  /\ currentIndex' = Max(0, currentIndex - 1)
  /\ Note("prev")
  /\ UNCHANGED <<view, mounted, selectedSession, isPlaying, replaySpeed, intervals,
                 pending, pendingInfo, allPositions, driverInfo>>
  /\ UNCHANGED oldVars /\ UNCHANGED rcVars /\ UNCHANGED wdVars /\ UNCHANGED anVars /\ UNCHANGED trailVars /\ UNCHANGED loopVars
  /\ ProcessedData

\* const handleNext = () => setCurrentIndex(Math.min(timestampGroups.length - 1, currentIndex + 1));
\* the button is disabled={currentIndex >= timestampGroups.length - 1}
CT_HandleNext ==
  /\ view = "CT" /\ mounted
  /\ ~(currentIndex >= CTLen(allPositions) - 1)
  /\ currentIndex' = Min(CTLen(allPositions) - 1, currentIndex + 1)
  /\ Note("next")
  /\ UNCHANGED <<view, mounted, selectedSession, isPlaying, replaySpeed, intervals,
                 pending, pendingInfo, allPositions, driverInfo>>
  /\ UNCHANGED oldVars /\ UNCHANGED rcVars /\ UNCHANGED wdVars /\ UNCHANGED anVars /\ UNCHANGED trailVars /\ UNCHANGED loopVars
  /\ ProcessedData

\* const handleReset = () => { setCurrentIndex(0); setIsPlaying(false); }
CT_HandleReset ==
  /\ view = "CT" /\ mounted
  /\ currentIndex' = 0
  /\ isPlaying' = FALSE
  /\ intervals' = ReplayEffect(intervals, FALSE, CTLen(allPositions), replaySpeed,
                               CTLen(allPositions))
  /\ NoteArg("reset", 0)
  /\ UNCHANGED <<view, mounted, selectedSession, replaySpeed, pending, pendingInfo,
                 allPositions, driverInfo>>
  /\ UNCHANGED oldVars /\ UNCHANGED rcVars /\ UNCHANGED wdVars /\ UNCHANGED anVars /\ UNCHANGED trailVars /\ UNCHANGED loopVars
  /\ ProcessedData

\* <select onChange={(e) => setReplaySpeed(Number(e.target.value))}>, then the replay effect
CT_SetReplaySpeed(v) ==
  /\ view = "CT" /\ mounted
  /\ v # replaySpeed
  /\ replaySpeed' = v
  /\ intervals' = ReplayEffect(intervals, isPlaying, CTLen(allPositions), v,
                               CTLen(allPositions))
  /\ Note("speed")
  /\ UNCHANGED <<view, mounted, selectedSession, currentIndex, isPlaying, pending,
                 pendingInfo, allPositions, driverInfo>>
  /\ UNCHANGED oldVars /\ UNCHANGED rcVars /\ UNCHANGED wdVars /\ UNCHANGED anVars /\ UNCHANGED trailVars /\ UNCHANGED loopVars
  /\ ProcessedData

CT_TickIndex_Skip(prevIndex, len) ==
  IF prevIndex >= len - 1 THEN prevIndex ELSE Min(prevIndex + 2, len - 1)

\* the interval callback: setCurrentIndex(prevIndex => ...), with the length it closed over
CT_TickIndex(prevIndex, len) ==
  IF prevIndex >= len - 1 THEN prevIndex ELSE prevIndex + 1

CT_TickStops(prevIndex, len) == prevIndex >= len - 1

CT_Tick ==
  /\ view = "CT" /\ mounted
  /\ \E iv \in intervals :
       /\ currentIndex' = CT_TickIndex(currentIndex, iv.data)
       /\ isPlaying' = IF CT_TickStops(currentIndex, iv.data) THEN FALSE ELSE isPlaying
       /\ intervals' = IF CT_TickStops(currentIndex, iv.data) /\ isPlaying
                         THEN ReplayEffect(intervals, FALSE, CTLen(allPositions), replaySpeed,
                                           CTLen(allPositions))
                         ELSE intervals
  /\ Note("tick")
  /\ UNCHANGED <<view, mounted, selectedSession, replaySpeed, pending, pendingInfo,
                 allPositions, driverInfo>>
  /\ UNCHANGED oldVars /\ UNCHANGED rcVars /\ UNCHANGED wdVars /\ UNCHANGED anVars /\ UNCHANGED trailVars /\ UNCHANGED loopVars
  /\ ProcessedData

\* App.tsx: another view is selected; React runs the cleanups of the effects
Unmount ==
  /\ mounted
  /\ mounted' = FALSE
  /\ intervals' = ReplayCleanup(intervals)
  /\ channel' = NoChannel
  /\ Note("unmount")
  /\ UNCHANGED <<view, selectedSession, currentIndex, isPlaying, replaySpeed, pending,
                 pendingInfo, allPositions, driverInfo, periodFilter, rows,
                 raceControlMessages, renderedMessages, currentMessage>>
  /\ UNCHANGED oldVars /\ UNCHANGED wdVars /\ UNCHANGED anVars /\ UNCHANGED trailVars /\ UNCHANGED loopVars
  /\ ProcessedData

----------------------------------------------------------------------------
(* CircuitTracker, older version (src/unnamed/part_006) *)

InitOLD ==
  /\ view = "OLD"
  /\ mounted = TRUE
  /\ selectedSession = 0
  /\ currentIndex = 0
  /\ isPlaying = FALSE
  /\ replaySpeed = 1
  /\ intervals = {}
  /\ pending = EmptyBag
  /\ pendingInfo = EmptyBag
  /\ allPositions = << >>
  /\ driverInfo = << >>
  /\ driverHistory = << >>
  /\ currentFramePositions = << >>
  /\ allDriverPositions = << >>
  /\ circuitCoordinates = << >>
  /\ replayTimestamps = << >>
  /\ periodFilter = "atual"
  /\ rows = << >>
  /\ raceControlMessages = << >>
  /\ renderedMessages = << >>
  /\ currentMessage = NoMessage
  /\ channel = NoChannel
  /\ weatherData = NoMessage
  /\ temperatureHistory = << >>
  /\ inputs = 0
  /\ last = "mount"
  /\ run = -1
  /\ stopped = FALSE
  /\ sought = -1
  /\ NoAnalytics

RECURSIVE TrackCoordinates(_, _)
\* the first position of every rounded cell, in data order; seen: the cells already taken
TrackCoordinates(data, seen) ==
  IF data = << >> THEN << >>
  ELSE LET pos == Head(data)
           key == <<RoundTo(pos.x_coord, 5), RoundTo(pos.y_coord, 5)>>
       IN IF pos.x_coord = NULL \/ pos.y_coord = NULL
            THEN TrackCoordinates(Tail(data), seen)
          ELSE IF key \in seen
            THEN TrackCoordinates(Tail(data), seen)
          ELSE <<[x |-> pos.x_coord, y |-> pos.y_coord]>>
                 \o TrackCoordinates(Tail(data), seen \cup {key})

RECURSIVE UpdatedPositions(_, _)
\* the updater of setAllDriverPositions in updateCurrentFrame
UpdatedPositions(prevPositions, framePositions) ==
  IF framePositions = << >> THEN prevPositions
  ELSE LET position == Head(framePositions)
           newPositions ==
             IF position.x_coord # NULL /\ position.y_coord # NULL
               THEN (position.driver_number :>
                       [x |-> position.x_coord, y |-> position.y_coord,
                        timestamp |-> position.timestamp]) @@ prevPositions
               ELSE prevPositions
       IN UpdatedPositions(newPositions, Tail(framePositions))

\* updateCurrentFrame(framePositions)
UpdateCurrentFrame(framePositions) ==
  /\ currentFramePositions' = framePositions
  /\ allDriverPositions' = UpdatedPositions(allDriverPositions, framePositions)

\* an uncaught TypeError while rendering: React unmounts the tree
Crash ==
  /\ mounted' = FALSE
  /\ intervals' = ReplayCleanup(intervals)
  /\ UNCHANGED <<currentIndex, currentFramePositions, allDriverPositions>>

\* fetchSessions: setSelectedSession(uniqueSessions[0]) when nothing is selected,
\* then the effects on [selectedSession]
OLD_DeliverSessions ==
  /\ view = "OLD" /\ mounted
  /\ selectedSession = 0
  /\ selectedSession' = NumSessions
  /\ currentIndex' = 0
  /\ isPlaying' = FALSE
  /\ allDriverPositions' = << >>
  /\ intervals' = ReplayEffect(intervals, FALSE, Len(driverHistory), replaySpeed, driverHistory)
  /\ pending' = AddToBag(pending, [session |-> NumSessions])
  /\ Note("sessions")
  /\ UNCHANGED <<view, mounted, replaySpeed, pendingInfo, allPositions, driverInfo, driverHistory,
                 currentFramePositions, circuitCoordinates, replayTimestamps>>
  /\ UNCHANGED rcVars /\ UNCHANGED wdVars /\ UNCHANGED anVars /\ UNCHANGED trailVars /\ UNCHANGED loopVars
  /\ ProcessedData

\* the session <select>, then the effects on [selectedSession]: the history effect
\* resets the replay state and starts the fetch
OLD_SelectSession(s) ==
  /\ view = "OLD" /\ mounted
  /\ selectedSession # 0
  /\ s # selectedSession
  /\ CanInput
  /\ selectedSession' = s
  /\ currentIndex' = 0
  /\ isPlaying' = FALSE
  /\ allDriverPositions' = << >>
  /\ intervals' = ReplayEffect(intervals, FALSE, Len(driverHistory), replaySpeed, driverHistory)
  /\ pending' = AddToBag(pending, [session |-> s])
  /\ Note("select")
  /\ UNCHANGED <<view, mounted, replaySpeed, pendingInfo, allPositions, driverInfo, driverHistory,
                 currentFramePositions, circuitCoordinates, replayTimestamps>>
  /\ UNCHANGED rcVars /\ UNCHANGED wdVars /\ UNCHANGED anVars /\ UNCHANGED trailVars /\ UNCHANGED loopVars
  /\ ProcessedData

\* the continuation of fetchDriverHistory with data for session s holding f timestamps
OLD_DeliverHistory(s, f) ==
  /\ view = "OLD"
  /\ BagIn([session |-> s], pending)
  /\ pending' = RemoveFromBag(pending, [session |-> s])
  /\ IF mounted
       THEN LET data == ServerPositions(s, f)
                groups == TimestampGroups(data)
                history == HistoryOf(data)
            IN /\ circuitCoordinates' = TrackCoordinates(data, {})
               /\ replayTimestamps' = [k \in 1..Len(groups) |-> groups[k].timestamp]
               /\ driverHistory' = history
               /\ IF Len(history) > 0
                    THEN UpdateCurrentFrame(history[1])
                    ELSE UNCHANGED <<currentFramePositions, allDriverPositions>>
               /\ intervals' = ReplayEffect(intervals, isPlaying, Len(history), replaySpeed, history)
               /\ Note("load")
       ELSE /\ UNCHANGED <<circuitCoordinates, replayTimestamps, driverHistory,
                           currentFramePositions, allDriverPositions, intervals>>
            /\ Note("dropped")
  /\ UNCHANGED <<view, mounted, selectedSession, currentIndex, isPlaying, replaySpeed,
                 pendingInfo, allPositions, driverInfo>>
  /\ UNCHANGED rcVars /\ UNCHANGED wdVars /\ UNCHANGED anVars /\ UNCHANGED trailVars /\ UNCHANGED loopVars
  /\ ProcessedData

\* the previous button: disabled={currentIndex === 0}
OLD_Previous ==
  /\ view = "OLD" /\ mounted
  /\ currentIndex # 0
  /\ LET prevIndex == Max(0, currentIndex - 1)
     IN IF prevIndex < Len(driverHistory)
          THEN /\ currentIndex' = prevIndex
               /\ UpdateCurrentFrame(driverHistory[prevIndex + 1])
               /\ UNCHANGED <<mounted, intervals>>
               /\ Note("prev")
          ELSE Crash /\ Note("prev")
  /\ UNCHANGED <<view, selectedSession, isPlaying, replaySpeed, pending, pendingInfo,
                 allPositions, driverInfo, driverHistory, circuitCoordinates,
                 replayTimestamps>>
  /\ UNCHANGED rcVars /\ UNCHANGED wdVars /\ UNCHANGED anVars /\ UNCHANGED trailVars /\ UNCHANGED loopVars
  /\ ProcessedData

\* the next button: disabled={currentIndex >= driverHistory.length - 1}
OLD_Next ==
  /\ view = "OLD" /\ mounted
  /\ ~(currentIndex >= Len(driverHistory) - 1)
  /\ LET nextIndex == Min(Len(driverHistory) - 1, currentIndex + 1)
     IN /\ currentIndex' = nextIndex
        /\ UpdateCurrentFrame(driverHistory[nextIndex + 1])
  /\ Note("next")
  /\ UNCHANGED <<view, mounted, selectedSession, isPlaying, replaySpeed, intervals, pending,
                 pendingInfo, allPositions, driverInfo, driverHistory, circuitCoordinates,
                 replayTimestamps>>
  /\ UNCHANGED rcVars /\ UNCHANGED wdVars /\ UNCHANGED anVars /\ UNCHANGED trailVars /\ UNCHANGED loopVars
  /\ ProcessedData

\* onClick={() => setIsPlaying(!isPlaying)}, then the replay effect
OLD_PlayPause ==
  /\ view = "OLD" /\ mounted
  /\ isPlaying' = ~isPlaying
  /\ intervals' = ReplayEffect(intervals, ~isPlaying, Len(driverHistory), replaySpeed,
                               driverHistory)
  /\ Note(IF isPlaying THEN "pause" ELSE "play")
  /\ UNCHANGED <<view, mounted, selectedSession, currentIndex, replaySpeed, pending,
                 pendingInfo, allPositions, driverInfo>>
  /\ UNCHANGED oldVars /\ UNCHANGED rcVars /\ UNCHANGED wdVars /\ UNCHANGED anVars /\ UNCHANGED trailVars /\ UNCHANGED loopVars
  /\ ProcessedData

OLD_SetReplaySpeed(v) ==
  /\ view = "OLD" /\ mounted
  /\ v # replaySpeed
  /\ replaySpeed' = v
  /\ intervals' = ReplayEffect(intervals, isPlaying, Len(driverHistory), v, driverHistory)
  /\ Note("speed")
  /\ UNCHANGED <<view, mounted, selectedSession, currentIndex, isPlaying, pending,
                 pendingInfo, allPositions, driverInfo>>
  /\ UNCHANGED oldVars /\ UNCHANGED rcVars /\ UNCHANGED wdVars /\ UNCHANGED anVars /\ UNCHANGED trailVars /\ UNCHANGED loopVars
  /\ ProcessedData

\* the interval callback, with the driverHistory it closed over
OLD_Tick ==
  /\ view = "OLD" /\ mounted
  /\ \E iv \in intervals :
       LET nextIndex == currentIndex + 1
       IN IF nextIndex >= Len(iv.data)
            THEN /\ isPlaying' = FALSE
                 /\ intervals' = IF isPlaying
                                   THEN ReplayEffect(intervals, FALSE, Len(driverHistory),
                                                     replaySpeed, driverHistory)
                                   ELSE intervals
                 /\ UNCHANGED <<currentIndex, currentFramePositions, allDriverPositions>>
            ELSE /\ UpdateCurrentFrame(iv.data[nextIndex + 1])
                 /\ currentIndex' = nextIndex
                 /\ UNCHANGED <<isPlaying, intervals>>
  /\ Note("tick")
  /\ UNCHANGED <<view, mounted, selectedSession, replaySpeed, pending, pendingInfo,
                 allPositions, driverInfo, driverHistory, circuitCoordinates,
                 replayTimestamps>>
  /\ UNCHANGED rcVars /\ UNCHANGED wdVars /\ UNCHANGED anVars /\ UNCHANGED trailVars /\ UNCHANGED loopVars
  /\ ProcessedData

NextOLD ==
  \/ OLD_DeliverSessions
  \/ \E s \in Sessions : OLD_SelectSession(s)
  \/ \E s \in Sessions, f \in 0..MaxFrames : OLD_DeliverHistory(s, f)
  \/ OLD_Previous
  \/ OLD_Next
  \/ OLD_PlayPause
  \/ \E v \in Speeds : OLD_SetReplaySpeed(v)
  \/ OLD_Tick

----------------------------------------------------------------------------
(* RaceControlDashboard (src/src/components/RaceControlDashboard.tsx) *)

InitRC ==
  /\ view = "RC"
  /\ mounted = TRUE
  /\ selectedSession = 0
  /\ currentIndex = 0
  /\ isPlaying = FALSE
  /\ replaySpeed = 1
  /\ intervals = {}
  /\ pending = EmptyBag
  /\ pendingInfo = EmptyBag
  /\ allPositions = << >>
  /\ driverInfo = << >>
  /\ driverHistory = << >>
  /\ currentFramePositions = << >>
  /\ allDriverPositions = << >>
  /\ circuitCoordinates = << >>
  /\ replayTimestamps = << >>
  /\ periodFilter = "atual"
  /\ rows = << >>
  /\ raceControlMessages = << >>
  /\ renderedMessages = << >>
  /\ currentMessage = NoMessage
  /\ channel = NoChannel
  /\ weatherData = NoMessage
  /\ temperatureHistory = << >>
  /\ inputs = 0
  /\ last = "mount"
  /\ run = -1
  /\ stopped = FALSE
  /\ sought = -1
  /\ NoAnalytics

\* rows[i], undefined (NoMessage) outside the array
At(rws, i) == IF 0 <= i /\ i < Len(rws) THEN rws[i + 1] ELSE NoMessage

\* rows.slice(Math.max(0, i - 5), Math.min(rows.length, i + 5))
Window(rws, i) == Slice(rws, Max(0, i - WindowHalf), Min(Len(rws), i + WindowHalf))

\* rows.slice(-10).reverse()
LastReversed(rws) == Reverse(Slice(rws, Max(0, Len(rws) - ListMax), Len(rws)))

\* the early return that replaces the page by the spinner
UIVisible == ~(currentMessage = NoMessage /\ Len(rows) = 0)

\* the effect on [periodFilter, rows, currentIndex]
PeriodEffect(pf, rws, st) ==
  IF Len(rws) = 0 THEN st
  ELSE IF pf = "atual"
    THEN [idx |-> Len(rws) - 1, msg |-> rws[Len(rws)], list |-> LastReversed(rws)]
    ELSE [idx |-> st.idx, msg |-> At(rws, st.idx), list |-> Window(rws, st.idx)]

\* One commit of RaceControlDashboard: the handler left st (index, message, list),
\* rows rws, period filter pf and playing; the period effect runs when one of its
\* dependencies changed, the replay effect is re-created for the values rendered.
RC_Commit(pf, rws, rowsChanged, playing, speed, st) ==
  LET ran == pf # periodFilter \/ rowsChanged \/ st.idx # currentIndex
      fin == IF ran THEN PeriodEffect(pf, rws, st) ELSE st
  IN /\ periodFilter' = pf
     /\ rows' = rws
     /\ isPlaying' = playing
     /\ replaySpeed' = speed
     /\ currentIndex' = fin.idx
     /\ currentMessage' = fin.msg
     /\ raceControlMessages' = fin.list
     /\ renderedMessages' = IF st.list # raceControlMessages THEN st.list ELSE fin.list
     /\ intervals' = ReplayEffect(intervals, playing, Len(rws), speed,
                                  [rows |-> rws, periodFilter |-> pf])

Here == [idx |-> currentIndex, msg |-> currentMessage, list |-> raceControlMessages]

\* the effect on [selectedSession, periodFilter]: reset, fetch, subscribe
RC_FetchEffect(s, pf) ==
  /\ pending' = AddToBag(pending, [session |-> s, periodFilter |-> pf])
  /\ channel' = [session |-> s, periodFilter |-> pf]

\* fetchSessions: setSelectedSession(uniqueSessions[0]) when nothing is selected
RC_DeliverSessions ==
  /\ view = "RC" /\ mounted
  /\ selectedSession = 0
  /\ selectedSession' = NumSessions
  /\ RC_FetchEffect(NumSessions, periodFilter)
  /\ RC_Commit(periodFilter, rows, FALSE, FALSE, replaySpeed, [Here EXCEPT !.idx = 0])
  /\ Note("sessions")
  /\ UNCHANGED <<view, mounted, pendingInfo, allPositions, driverInfo>>
  /\ UNCHANGED oldVars /\ UNCHANGED wdVars /\ UNCHANGED anVars /\ UNCHANGED trailVars /\ UNCHANGED loopVars
  /\ ProcessedData

\* the session <select>
RC_SelectSession(s) ==
  /\ view = "RC" /\ mounted /\ UIVisible
  /\ selectedSession # 0
  /\ s # selectedSession
  /\ CanInput
  /\ selectedSession' = s
  /\ RC_FetchEffect(s, periodFilter)
  /\ RC_Commit(periodFilter, rows, FALSE, FALSE, replaySpeed, [Here EXCEPT !.idx = 0])
  /\ Note("select")
  /\ UNCHANGED <<view, mounted, pendingInfo, allPositions, driverInfo>>
  /\ UNCHANGED oldVars /\ UNCHANGED wdVars /\ UNCHANGED anVars /\ UNCHANGED trailVars /\ UNCHANGED loopVars
  /\ ProcessedData

\* the Atual / Historico buttons; the fetch effect depends on periodFilter too
RC_SetPeriodFilter(pf) ==
  /\ view = "RC" /\ mounted /\ UIVisible
  /\ pf # periodFilter
  /\ CanInput
  /\ RC_FetchEffect(selectedSession, pf)
  /\ RC_Commit(pf, rows, FALSE, FALSE, replaySpeed, [Here EXCEPT !.idx = 0])
  /\ Note("period")
  /\ UNCHANGED <<view, mounted, selectedSession, pendingInfo, allPositions, driverInfo>>
  /\ UNCHANGED oldVars /\ UNCHANGED wdVars /\ UNCHANGED anVars /\ UNCHANGED trailVars /\ UNCHANGED loopVars
  /\ ProcessedData

\* the continuation of fetchRaceControlMessages, with the periodFilter it closed over
RC_DeliverMessages(p, n) ==
  /\ view = "RC"
  /\ BagIn(p, pending)
  /\ pending' = RemoveFromBag(pending, p)
  /\ IF mounted
       THEN LET data == ServerMessages(p.session, n)
                st == IF p.periodFilter = "atual" /\ n > 0
                        THEN [Here EXCEPT !.msg = data[n], !.list = LastReversed(data)]
                      ELSE IF n > 0
                        THEN [Here EXCEPT !.msg = data[1], !.list = Slice(data, 0, ListMax)]
                      ELSE Here
            IN /\ RC_Commit(periodFilter, data, TRUE, isPlaying, replaySpeed, st)
               /\ Note("load")
       ELSE /\ UNCHANGED <<periodFilter, rows, isPlaying, replaySpeed, currentIndex,
                           currentMessage, raceControlMessages, renderedMessages,
                           intervals>>
            /\ Note("dropped")
  /\ UNCHANGED <<view, mounted, selectedSession, pendingInfo, allPositions, driverInfo,
                 channel>>
  /\ UNCHANGED oldVars /\ UNCHANGED wdVars /\ UNCHANGED anVars /\ UNCHANGED trailVars /\ UNCHANGED loopVars
  /\ ProcessedData

Upsert_Only(current, newRow) == <<newRow>>

\* setRows(current => ...) of an INSERT or UPDATE event
Upsert(current, newRow) ==
  LET existingIndex == FindIndex(current, newRow.id)
  IN IF existingIndex >= 0
       THEN [current EXCEPT ![existingIndex + 1] = newRow]
       ELSE SortByTimestamp(Append(current, newRow))

\* filter(r => r.id !== id)
Without(current, id) == SelectSeq(current, LAMBDA r : r.id # id)

EventIds(s) == {10 * s + i : i \in 1..MaxRows}
EventTimes == {1, MaxRows + 1}

\* postgres_changes, eventType INSERT or UPDATE
RC_LiveUpsert(id, t) ==
  /\ view = "RC" /\ mounted
  /\ channel.session # 0
  /\ CanInput
  /\ id \in EventIds(channel.session)
  /\ LET typedNewRow == [id |-> id, session_id |-> channel.session, timestamp |-> t]
         st == IF channel.periodFilter = "atual"
                 THEN [Here EXCEPT !.msg = typedNewRow,
                                   !.list = <<typedNewRow>> \o Slice(raceControlMessages, 0, ListMax - 1)]
                 ELSE Here
     IN RC_Commit(periodFilter, Upsert(rows, typedNewRow), TRUE, isPlaying, replaySpeed, st)
  /\ NoteArg("upsert", id)
  /\ UNCHANGED <<view, mounted, selectedSession, pending, pendingInfo, allPositions,
                 driverInfo, channel>>
  /\ UNCHANGED oldVars /\ UNCHANGED wdVars /\ UNCHANGED anVars /\ UNCHANGED trailVars /\ UNCHANGED loopVars
  /\ ProcessedData

\* postgres_changes, eventType DELETE
RC_LiveDelete(id) ==
  /\ view = "RC" /\ mounted
  /\ channel.session # 0
  /\ CanInput
  /\ id \in EventIds(channel.session)
  /\ RC_Commit(periodFilter, Without(rows, id), TRUE, isPlaying, replaySpeed,
               [Here EXCEPT !.list = Without(raceControlMessages, id)])
  /\ Note("delete")
  /\ UNCHANGED <<view, mounted, selectedSession, pending, pendingInfo, allPositions,
                 driverInfo, channel>>
  /\ UNCHANGED oldVars /\ UNCHANGED wdVars /\ UNCHANGED anVars /\ UNCHANGED trailVars /\ UNCHANGED loopVars
  /\ ProcessedData

\* the previous button (historico only): disabled={currentIndex === 0}
RC_Previous ==
  /\ view = "RC" /\ mounted /\ UIVisible
  /\ periodFilter = "historico"
  /\ currentIndex # 0
  /\ LET prevIndex == Max(0, currentIndex - 1)
     IN RC_Commit(periodFilter, rows, FALSE, isPlaying, replaySpeed,
                  [idx |-> prevIndex, msg |-> At(rows, prevIndex),
                   list |-> Window(rows, prevIndex)])
  /\ Note("prev")
  /\ UNCHANGED <<view, mounted, selectedSession, pending, pendingInfo, allPositions,
                 driverInfo, channel>>
  /\ UNCHANGED oldVars /\ UNCHANGED wdVars /\ UNCHANGED anVars /\ UNCHANGED trailVars /\ UNCHANGED loopVars
  /\ ProcessedData

\* the next button (historico only): disabled={currentIndex === rows.length - 1}
RC_Next ==
  /\ view = "RC" /\ mounted /\ UIVisible
  /\ periodFilter = "historico"
  /\ currentIndex # Len(rows) - 1
  /\ LET nextIndex == Min(Len(rows) - 1, currentIndex + 1)
     IN RC_Commit(periodFilter, rows, FALSE, isPlaying, replaySpeed,
                  [idx |-> nextIndex, msg |-> At(rows, nextIndex),
                   list |-> Window(rows, nextIndex)])
  /\ Note("next")
  /\ UNCHANGED <<view, mounted, selectedSession, pending, pendingInfo, allPositions,
                 driverInfo, channel>>
  /\ UNCHANGED oldVars /\ UNCHANGED wdVars /\ UNCHANGED anVars /\ UNCHANGED trailVars /\ UNCHANGED loopVars
  /\ ProcessedData

\* onClick={() => setIsPlaying(!isPlaying)} (historico only)
RC_PlayPause ==
  /\ view = "RC" /\ mounted /\ UIVisible
  /\ periodFilter = "historico"
  /\ RC_Commit(periodFilter, rows, FALSE, ~isPlaying, replaySpeed, Here)
  /\ Note(IF isPlaying THEN "pause" ELSE "play")
  /\ UNCHANGED <<view, mounted, selectedSession, pending, pendingInfo, allPositions,
                 driverInfo, channel>>
  /\ UNCHANGED oldVars /\ UNCHANGED wdVars /\ UNCHANGED anVars /\ UNCHANGED trailVars /\ UNCHANGED loopVars
  /\ ProcessedData

RC_SetReplaySpeed(v) ==
  /\ view = "RC" /\ mounted /\ UIVisible
  /\ periodFilter = "historico"
  /\ v # replaySpeed
  /\ RC_Commit(periodFilter, rows, FALSE, isPlaying, v, Here)
  /\ Note("speed")
  /\ UNCHANGED <<view, mounted, selectedSession, pending, pendingInfo, allPositions,
                 driverInfo, channel>>
  /\ UNCHANGED oldVars /\ UNCHANGED wdVars /\ UNCHANGED anVars /\ UNCHANGED trailVars /\ UNCHANGED loopVars
  /\ ProcessedData

\* the place of a message on the timeline (0-based), -1 when the timeline does not hold it
TimelineIndex(message) ==
  IF \E i \in 1..Len(rows) : rows[i].id = message.id
    THEN (CHOOSE i \in 1..Len(rows) : rows[i].id = message.id) - 1
    ELSE -1

MessageIndex_First(rws, message) == IF Len(rws) > 0 THEN 0 ELSE -1

\* const messageIndex = rows.findIndex(row => row.id === message.id)
MessageIndex(rws, message) == FindIndex(rws, message.id)

\* onClick of a row of the message list
RC_RowClick(k) ==
  /\ view = "RC" /\ mounted /\ UIVisible
  /\ k \in 1..Len(raceControlMessages)
  /\ LET message == raceControlMessages[k]
         messageIndex == MessageIndex(rows, message)
     IN RC_Commit(periodFilter, rows, FALSE, isPlaying, replaySpeed,
                  [Here EXCEPT !.msg = message,
                               !.idx = IF periodFilter = "historico" /\ messageIndex # -1
                                         THEN messageIndex ELSE currentIndex])
  /\ IF periodFilter = "historico" /\ TimelineIndex(raceControlMessages[k]) # -1
       THEN NoteArg("seek", TimelineIndex(raceControlMessages[k]))
       ELSE Note("show")
  /\ UNCHANGED <<view, mounted, selectedSession, pending, pendingInfo, allPositions,
                 driverInfo, channel>>
  /\ UNCHANGED oldVars /\ UNCHANGED wdVars /\ UNCHANGED anVars /\ UNCHANGED trailVars /\ UNCHANGED loopVars
  /\ ProcessedData

\* the interval callback, with the rows and periodFilter it closed over
RC_Tick ==
  /\ view = "RC" /\ mounted
  /\ \E iv \in intervals :
       LET nextIndex == currentIndex + 1
           crows == iv.data.rows
       IN IF nextIndex >= Len(crows)
            THEN RC_Commit(periodFilter, rows, FALSE, FALSE, replaySpeed, Here)
            ELSE RC_Commit(periodFilter, rows, FALSE, isPlaying, replaySpeed,
                           [idx |-> nextIndex, msg |-> crows[nextIndex + 1],
                            list |-> IF iv.data.periodFilter = "historico"
                                       THEN Window(crows, nextIndex)
                                       ELSE raceControlMessages])
  /\ Note("tick")
  /\ UNCHANGED <<view, mounted, selectedSession, pending, pendingInfo, allPositions,
                 driverInfo, channel>>
  /\ UNCHANGED oldVars /\ UNCHANGED wdVars /\ UNCHANGED anVars /\ UNCHANGED trailVars /\ UNCHANGED loopVars
  /\ ProcessedData

NextRC ==
  \/ RC_DeliverSessions
  \/ \E s \in Sessions : RC_SelectSession(s)
  \/ \E pf \in PeriodFilters : RC_SetPeriodFilter(pf)
  \/ \E p \in BagToSet(pending), n \in 0..MaxRows : RC_DeliverMessages(p, n)
  \/ \E s \in Sessions : \E id \in EventIds(s), t \in EventTimes : RC_LiveUpsert(id, t)
  \/ \E s \in Sessions : \E id \in EventIds(s) : RC_LiveDelete(id)
  \/ RC_Previous
  \/ RC_Next
  \/ RC_PlayPause
  \/ \E v \in Speeds : RC_SetReplaySpeed(v)
  \/ \E k \in 1..ListMax : RC_RowClick(k)
  \/ RC_Tick

----------------------------------------------------------------------------
(* WeatherDashboard (src/unnamed/part_003) *)

InitWD ==
  /\ view = "WD"
  /\ mounted = TRUE
  /\ selectedSession = 0
  /\ currentIndex = 0
  /\ isPlaying = FALSE
  /\ replaySpeed = 1
  /\ intervals = {}
  /\ pending = EmptyBag
  /\ pendingInfo = EmptyBag
  /\ allPositions = << >>
  /\ driverInfo = << >>
  /\ driverHistory = << >>
  /\ currentFramePositions = << >>
  /\ allDriverPositions = << >>
  /\ circuitCoordinates = << >>
  /\ replayTimestamps = << >>
  /\ periodFilter = "atual"
  /\ rows = << >>
  /\ raceControlMessages = << >>
  /\ renderedMessages = << >>
  /\ currentMessage = NoMessage
  /\ channel = NoChannel
  /\ weatherData = NoMessage
  /\ temperatureHistory = << >>
  /\ inputs = 0
  /\ last = "mount"
  /\ run = -1
  /\ stopped = FALSE
  /\ sought = -1
  /\ NoAnalytics

\* weather_data of session s when it holds n rows, ordered by timestamp
ServerWeather(s, n) ==
  [i \in 1..n |-> [id |-> 10 * s + i, session_id |-> s, timestamp |-> i]]

\* if (!weatherData) return the spinner
WD_UIVisible == weatherData # NoMessage

\* the effect on [periodFilter, rows, currentIndex]
WD_PeriodEffect(pf, rws, st) ==
  IF Len(rws) = 0 THEN st
  ELSE IF pf = "atual"
    THEN [idx |-> Len(rws) - 1, msg |-> rws[Len(rws)]]
    ELSE [idx |-> st.idx, msg |-> At(rws, st.idx)]

\* One commit of WeatherDashboard: the handler left st (index, weatherData), rows rws,
\* period filter pf and playing; the period effect runs when one of its dependencies
\* changed, the replay effect is re-created for the values rendered.
WD_Commit(pf, rws, rowsChanged, playing, speed, st) ==
  LET ran == pf # periodFilter \/ rowsChanged \/ st.idx # currentIndex
      fin == IF ran THEN WD_PeriodEffect(pf, rws, st) ELSE st
  IN /\ periodFilter' = pf
     /\ rows' = rws
     /\ isPlaying' = playing
     /\ replaySpeed' = speed
     /\ currentIndex' = fin.idx
     /\ weatherData' = fin.msg
     /\ intervals' = ReplayEffect(intervals, playing, Len(rws), speed, [rows |-> rws])

WD_Here == [idx |-> currentIndex, msg |-> weatherData]

\* data.map(item => ({time, ar, pista, timestamp: new Date(item.timestamp).getTime()}))
HistoryPoint(item) == [timestamp |-> item.timestamp]

HistoryData(data) == [i \in 1..Len(data) |-> HistoryPoint(data[i])]

\* findIndex(item => item.timestamp === newPoint.timestamp), -1 when there is none
HistoryIndex(current, timestamp) ==
  IF \E k \in 1..Len(current) : current[k].timestamp = timestamp
    THEN (CHOOSE k \in 1..Len(current) :
            /\ current[k].timestamp = timestamp
            /\ \A j \in 1..(k - 1) : current[j].timestamp # timestamp) - 1
    ELSE -1

\* setTemperatureHistory(current => ...) of an INSERT or UPDATE event: the point
\* is looked up by its timestamp, replaced when found, pushed and sorted otherwise
HistoryUpsert(current, typedNewRow) ==
  LET newPoint == HistoryPoint(typedNewRow)
      existingIndex == HistoryIndex(current, newPoint.timestamp)
  IN IF existingIndex >= 0
       THEN [current EXCEPT ![existingIndex + 1] = newPoint]
       ELSE SortByTimestamp(Append(current, newPoint))

\* the old row of a DELETE event, taken with all its columns: the row held
\* under that id
OldRows(current, id) == SelectSeq(current, LAMBDA r : r.id = id)

\* filter(item => item.timestamp !== new Date(typedOldRow.timestamp).getTime())
HistoryWithout(current, old) ==
  SelectSeq(current, LAMBDA item : \A k \in 1..Len(old) : item.timestamp # old[k].timestamp)

\* fetchSessions: setSelectedSession(uniqueSessions[0]) when nothing is selected
WD_DeliverSessions ==
  /\ view = "WD" /\ mounted
  /\ selectedSession = 0
  /\ selectedSession' = NumSessions
  /\ RC_FetchEffect(NumSessions, periodFilter)
  /\ WD_Commit(periodFilter, rows, FALSE, FALSE, replaySpeed, [WD_Here EXCEPT !.idx = 0])
  /\ Note("sessions")
  /\ UNCHANGED <<view, mounted, pendingInfo, allPositions, driverInfo,
                 raceControlMessages, renderedMessages, currentMessage>>
  /\ UNCHANGED oldVars /\ UNCHANGED anVars /\ UNCHANGED trailVars /\ UNCHANGED loopVars
  /\ UNCHANGED temperatureHistory
  /\ ProcessedData

\* the session <select>
WD_SelectSession(s) ==
  /\ view = "WD" /\ mounted /\ WD_UIVisible
  /\ selectedSession # 0
  /\ s # selectedSession
  /\ CanInput
  /\ selectedSession' = s
  /\ RC_FetchEffect(s, periodFilter)
  /\ WD_Commit(periodFilter, rows, FALSE, FALSE, replaySpeed, [WD_Here EXCEPT !.idx = 0])
  /\ Note("select")
  /\ UNCHANGED <<view, mounted, pendingInfo, allPositions, driverInfo,
                 raceControlMessages, renderedMessages, currentMessage>>
  /\ UNCHANGED oldVars /\ UNCHANGED anVars /\ UNCHANGED trailVars /\ UNCHANGED loopVars
  /\ UNCHANGED temperatureHistory
  /\ ProcessedData

\* the Atual / Historico buttons; the fetch effect depends on periodFilter too
WD_SetPeriodFilter(pf) ==
  /\ view = "WD" /\ mounted /\ WD_UIVisible
  /\ pf # periodFilter
  /\ CanInput
  /\ RC_FetchEffect(selectedSession, pf)
  /\ WD_Commit(pf, rows, FALSE, FALSE, replaySpeed, [WD_Here EXCEPT !.idx = 0])
  /\ Note("period")
  /\ UNCHANGED <<view, mounted, selectedSession, pendingInfo, allPositions, driverInfo,
                 raceControlMessages, renderedMessages, currentMessage>>
  /\ UNCHANGED oldVars /\ UNCHANGED anVars /\ UNCHANGED trailVars /\ UNCHANGED loopVars
  /\ UNCHANGED temperatureHistory
  /\ ProcessedData

\* the continuation of fetchWeatherData, with the periodFilter it closed over
WD_DeliverWeather(p, n) ==
  /\ view = "WD"
  /\ BagIn(p, pending)
  /\ pending' = RemoveFromBag(pending, p)
  /\ IF mounted
       THEN LET data == ServerWeather(p.session, n)
                st == IF p.periodFilter = "atual" /\ n > 0
                        THEN [WD_Here EXCEPT !.msg = data[n]]
                      ELSE IF n > 0
                        THEN [WD_Here EXCEPT !.msg = data[1]]
                      ELSE WD_Here
            IN /\ WD_Commit(periodFilter, data, TRUE, isPlaying, replaySpeed, st)
               /\ Note("load")
       ELSE /\ UNCHANGED <<periodFilter, rows, isPlaying, replaySpeed, currentIndex,
                           weatherData, intervals>>
            /\ Note("dropped")
  /\ UNCHANGED <<view, mounted, selectedSession, pendingInfo, allPositions, driverInfo,
                 channel, raceControlMessages, renderedMessages, currentMessage>>
  /\ UNCHANGED oldVars /\ UNCHANGED anVars /\ UNCHANGED trailVars /\ UNCHANGED loopVars
  /\ temperatureHistory' = IF mounted THEN HistoryData(ServerWeather(p.session, n))
                                      ELSE temperatureHistory
  /\ ProcessedData

\* postgres_changes, eventType INSERT or UPDATE
WD_LiveUpsert(id, t) ==
  /\ view = "WD" /\ mounted
  /\ channel.session # 0
  /\ CanInput
  /\ id \in EventIds(channel.session)
  /\ LET typedNewRow == [id |-> id, session_id |-> channel.session, timestamp |-> t]
         st == IF channel.periodFilter = "atual"
                 THEN [WD_Here EXCEPT !.msg = typedNewRow]
                 ELSE WD_Here
     IN WD_Commit(periodFilter, Upsert(rows, typedNewRow), TRUE, isPlaying, replaySpeed, st)
  /\ NoteArg("upsert", id)
  /\ UNCHANGED <<view, mounted, selectedSession, pending, pendingInfo, allPositions,
                 driverInfo, channel, raceControlMessages, renderedMessages, currentMessage>>
  /\ UNCHANGED oldVars /\ UNCHANGED anVars /\ UNCHANGED trailVars /\ UNCHANGED loopVars
  /\ temperatureHistory' = HistoryUpsert(temperatureHistory,
                            [id |-> id, session_id |-> channel.session, timestamp |-> t])
  /\ ProcessedData

\* postgres_changes, eventType DELETE
WD_LiveDelete(id) ==
  /\ view = "WD" /\ mounted
  /\ channel.session # 0
  /\ CanInput
  /\ id \in EventIds(channel.session)
  /\ WD_Commit(periodFilter, Without(rows, id), TRUE, isPlaying, replaySpeed, WD_Here)
  /\ Note("delete")
  /\ UNCHANGED <<view, mounted, selectedSession, pending, pendingInfo, allPositions,
                 driverInfo, channel, raceControlMessages, renderedMessages, currentMessage>>
  /\ UNCHANGED oldVars /\ UNCHANGED anVars /\ UNCHANGED trailVars /\ UNCHANGED loopVars
  /\ temperatureHistory' = HistoryWithout(temperatureHistory, OldRows(rows, id))
  /\ ProcessedData

\* onClick={() => setCurrentIndex(Math.max(0, currentIndex - 1))} (historico only);
\* disabled={currentIndex === 0}
WD_Previous ==
  /\ view = "WD" /\ mounted /\ WD_UIVisible
  /\ periodFilter = "historico"
  /\ currentIndex # 0
  /\ WD_Commit(periodFilter, rows, FALSE, isPlaying, replaySpeed,
               [WD_Here EXCEPT !.idx = Max(0, currentIndex - 1)])
  /\ Note("prev")
  /\ UNCHANGED <<view, mounted, selectedSession, pending, pendingInfo, allPositions,
                 driverInfo, channel, raceControlMessages, renderedMessages, currentMessage>>
  /\ UNCHANGED oldVars /\ UNCHANGED anVars /\ UNCHANGED trailVars /\ UNCHANGED loopVars
  /\ UNCHANGED temperatureHistory
  /\ ProcessedData

\* onClick={() => setCurrentIndex(Math.min(rows.length - 1, currentIndex + 1))};
\* disabled={currentIndex === rows.length - 1}
WD_Next ==
  /\ view = "WD" /\ mounted /\ WD_UIVisible
  /\ periodFilter = "historico"
  /\ currentIndex # Len(rows) - 1
  /\ WD_Commit(periodFilter, rows, FALSE, isPlaying, replaySpeed,
               [WD_Here EXCEPT !.idx = Min(Len(rows) - 1, currentIndex + 1)])
  /\ Note("next")
  /\ UNCHANGED <<view, mounted, selectedSession, pending, pendingInfo, allPositions,
                 driverInfo, channel, raceControlMessages, renderedMessages, currentMessage>>
  /\ UNCHANGED oldVars /\ UNCHANGED anVars /\ UNCHANGED trailVars /\ UNCHANGED loopVars
  /\ UNCHANGED temperatureHistory
  /\ ProcessedData

\* onClick={() => setIsPlaying(!isPlaying)} (historico only)
WD_PlayPause ==
  /\ view = "WD" /\ mounted /\ WD_UIVisible
  /\ periodFilter = "historico"
  /\ WD_Commit(periodFilter, rows, FALSE, ~isPlaying, replaySpeed, WD_Here)
  /\ Note(IF isPlaying THEN "pause" ELSE "play")
  /\ UNCHANGED <<view, mounted, selectedSession, pending, pendingInfo, allPositions,
                 driverInfo, channel, raceControlMessages, renderedMessages, currentMessage>>
  /\ UNCHANGED oldVars /\ UNCHANGED anVars /\ UNCHANGED trailVars /\ UNCHANGED loopVars
  /\ UNCHANGED temperatureHistory
  /\ ProcessedData

WD_SetReplaySpeed(v) ==
  /\ view = "WD" /\ mounted /\ WD_UIVisible
  /\ periodFilter = "historico"
  /\ v # replaySpeed
  /\ WD_Commit(periodFilter, rows, FALSE, isPlaying, v, WD_Here)
  /\ Note("speed")
  /\ UNCHANGED <<view, mounted, selectedSession, pending, pendingInfo, allPositions,
                 driverInfo, channel, raceControlMessages, renderedMessages, currentMessage>>
  /\ UNCHANGED oldVars /\ UNCHANGED anVars /\ UNCHANGED trailVars /\ UNCHANGED loopVars
  /\ UNCHANGED temperatureHistory
  /\ ProcessedData

\* the interval callback, with the rows it closed over
WD_Tick ==
  /\ view = "WD" /\ mounted
  /\ \E iv \in intervals :
       LET nextIndex == currentIndex + 1
           crows == iv.data.rows
       IN IF nextIndex >= Len(crows)
            THEN WD_Commit(periodFilter, rows, FALSE, FALSE, replaySpeed, WD_Here)
            ELSE WD_Commit(periodFilter, rows, FALSE, isPlaying, replaySpeed,
                           [idx |-> nextIndex, msg |-> crows[nextIndex + 1]])
  /\ Note("tick")
  /\ UNCHANGED <<view, mounted, selectedSession, pending, pendingInfo, allPositions,
                 driverInfo, channel, raceControlMessages, renderedMessages, currentMessage>>
  /\ UNCHANGED oldVars /\ UNCHANGED anVars /\ UNCHANGED trailVars /\ UNCHANGED loopVars
  /\ UNCHANGED temperatureHistory
  /\ ProcessedData

NextWD ==
  \/ WD_DeliverSessions
  \/ \E s \in Sessions : WD_SelectSession(s)
  \/ \E pf \in PeriodFilters : WD_SetPeriodFilter(pf)
  \/ \E p \in BagToSet(pending), n \in 0..MaxRows : WD_DeliverWeather(p, n)
  \/ \E s \in Sessions : \E id \in EventIds(s), t \in EventTimes : WD_LiveUpsert(id, t)
  \/ \E s \in Sessions : \E id \in EventIds(s) : WD_LiveDelete(id)
  \/ WD_Previous
  \/ WD_Next
  \/ WD_PlayPause
  \/ \E v \in Speeds : WD_SetReplaySpeed(v)
  \/ WD_Tick

----------------------------------------------------------------------------
(* WeatherDashboard of src/src/components: the last rows of weather_data of
   every session, newest first, and the events of the table *)

EventTypes == {"INSERT", "UPDATE", "DELETE"}

\* the reducer given to setRows by the postgres_changes handler
WeatherRows(current, eventType, newRow, oldRow) ==
  IF eventType = "INSERT" THEN <<newRow>> \o current
  ELSE IF eventType = "UPDATE"
    THEN [k \in 1..Len(current) |-> IF current[k].id = newRow.id THEN newRow ELSE current[k]]
  ELSE IF eventType = "DELETE"
    THEN SelectSeq(current, LAMBDA r : r.id # oldRow.id)
  ELSE current

InitLW ==
  /\ view = "LW"
  /\ mounted = TRUE
  /\ selectedSession = 0
  /\ currentIndex = 0
  /\ isPlaying = FALSE
  /\ replaySpeed = 1
  /\ intervals = {}
  /\ pending = SetToBag({[session |-> 0]})
  /\ pendingInfo = EmptyBag
  /\ allPositions = << >>
  /\ driverInfo = << >>
  /\ driverHistory = << >>
  /\ currentFramePositions = << >>
  /\ allDriverPositions = << >>
  /\ circuitCoordinates = << >>
  /\ replayTimestamps = << >>
  /\ periodFilter = "atual"
  /\ rows = << >>
  /\ raceControlMessages = << >>
  /\ renderedMessages = << >>
  /\ currentMessage = NoMessage
  /\ channel = NoChannel
  /\ weatherData = NoMessage
  /\ temperatureHistory = << >>
  /\ inputs = 0
  /\ last = "mount"
  /\ run = -1
  /\ stopped = FALSE
  /\ sought = -1
  /\ NoAnalytics

lwFrame == <<view, mounted, selectedSession, currentIndex, isPlaying, replaySpeed,
             intervals, pendingInfo, allPositions, driverInfo, periodFilter,
             raceControlMessages, renderedMessages, currentMessage, channel>>

\* .then(({ data }) => data && setRows(data)) with n rows, newest first; a
\* null data leaves the rows
LW_DeliverRows(n, ok) ==
  /\ view = "LW"
  /\ BagIn([session |-> 0], pending)
  /\ pending' = RemoveFromBag(pending, [session |-> 0])
  /\ rows' = IF mounted /\ ok THEN Reverse(ServerWeather(1, n)) ELSE rows
  /\ Note(IF ~mounted THEN "dropped" ELSE IF ok THEN "load" ELSE "fetch_error")
  /\ UNCHANGED lwFrame
  /\ UNCHANGED oldVars /\ UNCHANGED wdVars /\ UNCHANGED anVars /\ UNCHANGED trailVars /\ UNCHANGED loopVars
  /\ ProcessedData

\* postgres_changes of any row of the table
LW_Live(eventType, id, t) ==
  /\ view = "LW" /\ mounted
  /\ CanInput
  /\ LET row == [id |-> id, session_id |-> 1, timestamp |-> t]
     IN rows' = WeatherRows(rows, eventType, row, row)
  /\ NoteArg(IF eventType = "INSERT" THEN "insert"
             ELSE IF eventType = "UPDATE" THEN "update" ELSE "delete", id)
  /\ UNCHANGED lwFrame /\ UNCHANGED pending
  /\ UNCHANGED oldVars /\ UNCHANGED wdVars /\ UNCHANGED anVars /\ UNCHANGED trailVars /\ UNCHANGED loopVars
  /\ ProcessedData

NextLW ==
  \/ \E n \in 0..MaxRows, ok \in BOOLEAN : LW_DeliverRows(n, ok)
  \/ \E eventType \in EventTypes, id \in EventIds(1), t \in EventTimes : LW_Live(eventType, id, t)

----------------------------------------------------------------------------
(* The trails of CircuitTracker *)

TrailLengths == {5, 20}

\* processedData.driverTrails[driverNumber]: every position of the driver, in
\* the order of allPositions
DriverTrail(ps, driverNumber) ==
  LET driverPositions == SelectSeq(ps, LAMBDA p : p.driver_number = driverNumber)
  IN [k \in 1..Len(driverPositions) |->
        [x |-> driverPositions[k].x_coord, y |-> driverPositions[k].y_coord]]

\* trail.slice(Math.max(0, trail.length - trailLength))
RecentTrail(trail, length) ==
  SubSeq(trail, Max(0, Len(trail) - length) + 1, Len(trail))

\* the points of the trail path drawn for a driver; none when trails are
\* hidden or fewer than two points are left
TrailDrawn(driverNumber) ==
  LET recentTrail == RecentTrail(DriverTrail(allPositions, driverNumber), trailLength)
  IN IF showTrails /\ Len(recentTrail) >= 2 THEN recentTrail ELSE << >>

\* the checkbox: setShowTrails(e.target.checked)
CT_SetShowTrails ==
  /\ view = "CT" /\ mounted
  /\ CanInput
  /\ showTrails' = ~showTrails
  /\ Note("trails")
  /\ UNCHANGED <<view, mounted, selectedSession, currentIndex, isPlaying, replaySpeed,
                 intervals, pending, pendingInfo, allPositions, driverInfo, trailLength>>
  /\ UNCHANGED oldVars /\ UNCHANGED rcVars /\ UNCHANGED wdVars /\ UNCHANGED anVars
  /\ UNCHANGED loopVars
  /\ ProcessedData

\* the range input, rendered while showTrails: setTrailLength(Number(e.target.value))
CT_SetTrailLength(v) ==
  /\ view = "CT" /\ mounted
  /\ showTrails
  /\ v # trailLength
  /\ CanInput
  /\ trailLength' = v
  /\ Note("trail_length")
  /\ UNCHANGED <<view, mounted, selectedSession, currentIndex, isPlaying, replaySpeed,
                 intervals, pending, pendingInfo, allPositions, driverInfo, showTrails>>
  /\ UNCHANGED oldVars /\ UNCHANGED rcVars /\ UNCHANGED wdVars /\ UNCHANGED anVars
  /\ UNCHANGED loopVars
  /\ ProcessedData

----------------------------------------------------------------------------
(* The sample pipeline of the circuit views, applied to the rows of a fetch *)

\* sampling instants, in seconds, at uneven distances
Times == {0, 2, 3}

\* every variable of the replaying views
replayVars == <<mounted, selectedSession, currentIndex, isPlaying, replaySpeed,
                intervals, pending, pendingInfo, allPositions, driverInfo,
                driverHistory, currentFramePositions, allDriverPositions,
                circuitCoordinates, replayTimestamps,
                periodFilter, rows, raceControlMessages, renderedMessages, currentMessage, channel,
                weatherData, temperatureHistory, inputs, last, run, stopped, sought>>

\* a view that replays nothing
NoReplay ==
  /\ mounted = TRUE
  /\ selectedSession = 0
  /\ currentIndex = 0
  /\ isPlaying = FALSE
  /\ replaySpeed = 1
  /\ intervals = {}
  /\ pending = EmptyBag
  /\ pendingInfo = EmptyBag
  /\ allPositions = << >>
  /\ driverInfo = << >>
  /\ driverHistory = << >>
  /\ currentFramePositions = << >>
  /\ allDriverPositions = << >>
  /\ circuitCoordinates = << >>
  /\ replayTimestamps = << >>
  /\ periodFilter = "atual"
  /\ rows = << >>
  /\ raceControlMessages = << >>
  /\ renderedMessages = << >>
  /\ currentMessage = NoMessage
  /\ channel = NoChannel
  /\ weatherData = NoMessage
  /\ temperatureHistory = << >>
  /\ inputs = 0
  /\ last = "mount"
  /\ run = -1
  /\ stopped = FALSE
  /\ sought = -1

\* sequences of at most MaxSamples elements of S in ascending timestamp order,
\* as a query with .order('timestamp', { ascending: true }) returns them
OrderedRows(S) ==
  {q \in UNION {[1..n -> S] : n \in 0..MaxSamples} :
     \A i \in 1..(Len(q) - 1) : q[i].timestamp <= q[i + 1].timestamp}

\* coordinates a car_positions row can carry: a null x, a null y, the (0,0)
\* placeholder, one coordinate zero, both coordinates set
DataPoints == {<<NULL, 400>>, <<300, NULL>>, <<0, 0>>, <<0, 400>>, <<300, 400>>}

DataSamples ==
  {[session_id |-> 1, driver_number |-> "1", timestamp |-> t,
    x_coord |-> p[1], y_coord |-> p[2]] : t \in Times, p \in DataPoints}

InitData ==
  /\ view = "DATA"
  /\ NoReplay
  /\ rawPositions \in OrderedRows(DataSamples)
  /\ selectedDrivers = << >>
  /\ analyticsMode = "positions"
  /\ timeWindow = [start |-> 0, end |-> 100]
  /\ enhancedPositions = << >>
  /\ heatmapData = << >>
  /\ filteredPositions = << >>
  /\ result = [op |-> "none"]
  /\ showTrails = TRUE
  /\ trailLength = 20
  /\ NoPath

\* validPositions of the older CircuitTracker
HistoryValidPosition(pos) == pos.x_coord # NULL /\ pos.y_coord # NULL

\* fetchPositions of CircuitTracker on the rows: the filter, then timestampGroups
Data_FetchPositions ==
  /\ view = "DATA"
  /\ LET validPositions == SelectSeq(rawPositions, ValidPosition)
     IN result' = [op |-> "fetchPositions",
                   positions |-> validPositions,
                   frames |-> TimestampGroups(validPositions)]
  /\ UNCHANGED <<view, rawPositions, selectedDrivers, analyticsMode, timeWindow,
                 enhancedPositions, heatmapData, filteredPositions>>
  /\ UNCHANGED replayVars /\ UNCHANGED trailVars /\ UNCHANGED loopVars
  /\ ProcessedData

\* fetchDriverHistory of the older CircuitTracker on the rows: validPositions
\* feeds the track points only, positionsByTimestamp groups the rows themselves
Data_FetchDriverHistory ==
  /\ view = "DATA"
  /\ LET validPositions == SelectSeq(rawPositions, HistoryValidPosition)
     IN result' = [op |-> "fetchDriverHistory",
                   positions |-> validPositions,
                   frames |-> TimestampGroups(rawPositions)]
  /\ UNCHANGED <<view, rawPositions, selectedDrivers, analyticsMode, timeWindow,
                 enhancedPositions, heatmapData, filteredPositions>>
  /\ UNCHANGED replayVars /\ UNCHANGED trailVars /\ UNCHANGED loopVars
  /\ ProcessedData

NextData ==
  \/ Data_FetchPositions
  \/ Data_FetchDriverHistory

----------------------------------------------------------------------------
(* JavaScript numbers of the analytics: a fraction n/d in lowest terms with
   d > 0; d = 0 stands for NaN (n = 0) and for +Infinity / -Infinity (n = 1, -1) *)

Abs(a) == IF a < 0 THEN -a ELSE a

RECURSIVE GCD(_, _)
GCD(a, b) == IF b = 0 THEN a ELSE GCD(b, a % b)

\* n/d for d > 0
Frac(n, d) ==
  LET g == GCD(Abs(n), d)
  IN IF n < 0 THEN [n |-> -(Abs(n) \div g), d |-> d \div g]
              ELSE [n |-> n \div g, d |-> d \div g]

Zero == [n |-> 0, d |-> 1]
NaN == [n |-> 0, d |-> 0]
Infinity == [n |-> 1, d |-> 0]
MinusInfinity == [n |-> -1, d |-> 0]

IsFinite(a) == a.d > 0

\* a + b, a - b of finite numbers
Add(a, b) == Frac(a.n * b.d + b.n * a.d, a.d * b.d)
Sub(a, b) == Frac(a.n * b.d - b.n * a.d, a.d * b.d)

\* a / b of finite numbers: 0/0 is NaN, x/0 is an infinity
Div(a, b) ==
  IF b.n = 0
    THEN (IF a.n = 0 THEN NaN ELSE IF a.n > 0 THEN Infinity ELSE MinusInfinity)
  ELSE IF b.n > 0 THEN Frac(a.n * b.d, a.d * b.n)
  ELSE Frac(-(a.n * b.d), a.d * (-(b.n)))

\* a <= b of finite numbers
LessEq(a, b) == a.n * b.d <= b.n * a.d

\* a || 0: NaN and 0 are falsy
OrZero(a) == IF a.n = 0 THEN Zero ELSE a

RECURSIVE SqrtBetween(_, _, _)
\* the r in lo..hi with r * r = n, by bisection
SqrtBetween(n, lo, hi) ==
  LET mid == (lo + hi) \div 2
  IN IF mid * mid = n THEN mid
     ELSE IF mid * mid < n THEN SqrtBetween(n, mid + 1, hi)
     ELSE SqrtBetween(n, lo, mid - 1)

\* Math.sqrt on the squares the coordinates of the model produce
Sqrt(n) == SqrtBetween(n, 0, Min(n, 2048))

\* Math.max(...values): -Infinity of nothing
RECURSIVE MaxOf(_)
MaxOf(values) ==
  IF values = << >> THEN MinusInfinity
  ELSE LET rest == MaxOf(Tail(values))
       IN IF rest = MinusInfinity \/ LessEq(rest, Head(values))
            THEN Head(values) ELSE rest

----------------------------------------------------------------------------
(* AdvancedCircuitAnalytics *)

\* coordinates of the samples: two points of one grid cell and one of another,
\* at whole distances 100, 400 and 500 from each other
Points == {<<0, 0>>, <<60, 80>>, <<300, 400>>}

\* the rows rawPositions can hold: the data of the mount effect stands in for the
\* car_positions rows of the API
AnalyticsSamples ==
  {[driver_number |-> Drivers[d], timestamp |-> t, x_coord |-> p[1], y_coord |-> p[2]] :
     d \in 1..Len(Drivers), t \in Times, p \in Points}

AnalyticsModes == {"positions", "heatmap"}
WindowStarts == {0, 50}
WindowEnds == {50, 100}

Includes(seq, x) == \E i \in 1..Len(seq) : seq[i] = x

\* driverGroups, as Object.entries lists it: integer-like keys in ascending order,
\* each group in the order of the rows
DriverGroups_Single(raw) == IF raw = << >> THEN << >> ELSE << raw >>

DriverGroups(raw) ==
  LET keys == SelectSeq(Drivers, LAMBDA d : \E i \in 1..Len(raw) : raw[i].driver_number = d)
  IN [k \in 1..Len(keys) |-> SelectSeq(raw, LAMBDA pos : pos.driver_number = keys[k])]

\* { ...pos, speed, acceleration, distance }
Enhanced(pos, speed, acceleration, distance) ==
  [driver_number |-> pos.driver_number, timestamp |-> pos.timestamp,
   x_coord |-> pos.x_coord, y_coord |-> pos.y_coord,
   speed |-> speed, acceleration |-> acceleration, distance |-> distance]

\* timeDiff in seconds
TimeDiff(pos, prevPos) == pos.timestamp - prevPos.timestamp

\* if (timeDiff > 0)
Moved_Always(timeDiff) == TRUE

Moved(timeDiff) == timeDiff > 0

Distance_Manhattan(pos, prevPos) ==
  Abs(pos.x_coord - prevPos.x_coord) + Abs(pos.y_coord - prevPos.y_coord)

Distance_Signed(pos, prevPos) ==
  (pos.x_coord - prevPos.x_coord) + (pos.y_coord - prevPos.y_coord)

\* Math.sqrt(Math.pow(dx, 2) + Math.pow(dy, 2))
Distance(pos, prevPos) ==
  Sqrt((pos.x_coord - prevPos.x_coord) * (pos.x_coord - prevPos.x_coord)
       + (pos.y_coord - prevPos.y_coord) * (pos.y_coord - prevPos.y_coord))

PrevSpeed_None(enhanced) == Zero

\* enhanced[enhanced.length - 1]?.speed || 0
PrevSpeed(enhanced) ==
  IF Len(enhanced) = 0 THEN Zero ELSE OrZero(enhanced[Len(enhanced)].speed)

RECURSIVE EnhanceGroup(_, _, _)
\* sortedPositions.forEach((pos, index) => ...) from index on, pushing to enhanced
EnhanceGroup(sortedPositions, index, enhanced) ==
  IF index >= Len(sortedPositions) THEN enhanced
  ELSE LET pos == sortedPositions[index + 1]
           prevPos == sortedPositions[index]
           timeDiff == TimeDiff(pos, prevPos)
           distance == Frac(Distance(pos, prevPos), 1)
           speed == Div(distance, Frac(timeDiff, 1))
           acceleration ==
             IF index > 1
               THEN Div(Sub(speed, PrevSpeed(enhanced)), Frac(timeDiff, 1))
               ELSE Zero
           enhanced_pos ==
             IF index > 0 /\ Moved(timeDiff)
               THEN Enhanced(pos, speed, acceleration, distance)
               ELSE Enhanced(pos, Zero, Zero, Zero)
       IN EnhanceGroup(sortedPositions, index + 1, Append(enhanced, enhanced_pos))

RECURSIVE EnhanceGroups(_, _)
\* Object.entries(driverGroups).forEach(...)
EnhanceGroups(groups, enhanced) ==
  IF groups = << >> THEN enhanced
  ELSE EnhanceGroups(Tail(groups),
                     EnhanceGroup(SortByTimestamp(Head(groups)), 0, enhanced))

\* the enhancedPositions memo
EnhancedPositions(raw) ==
  IF Len(raw) = 0 THEN << >> ELSE EnhanceGroups(DriverGroups(raw), << >>)

\* Math.floor(v / gridSize) * gridSize
GridOf(v) == (v \div gridSize) * gridSize

RECURSIVE HeatmapGrid(_, _)
\* the forEach of heatmapData: the cells of the Map in insertion order
HeatmapGrid(positions, grid) ==
  IF positions = << >> THEN grid
  ELSE LET pos == Head(positions)
           gridX == GridOf(pos.x_coord)
           gridY == GridOf(pos.y_coord)
           has == \E k \in 1..Len(grid) : grid[k].x = gridX /\ grid[k].y = gridY
           withCell == IF has THEN grid
                       ELSE Append(grid, [x |-> gridX, y |-> gridY,
                                          intensity |-> Zero, count |-> 0])
           j == CHOOSE k \in 1..Len(withCell) :
                  withCell[k].x = gridX /\ withCell[k].y = gridY
           cell == withCell[j]
       IN HeatmapGrid(Tail(positions),
                      [withCell EXCEPT ![j] =
                         [cell EXCEPT !.count = cell.count + 1,
                                      !.intensity = Add(cell.intensity, OrZero(pos.speed))]])

RECURSIVE SumOf(_)
SumOf(values) == IF values = << >> THEN Zero ELSE Add(Head(values), SumOf(Tail(values)))

MaxIntensity_Total(mean) == SumOf(mean)

\* maxIntensity: the largest mean speed of a cell
MaxIntensity(mean) == MaxOf(mean)

HeatmapSource_All(enhanced, selected) == enhanced

\* enhancedPositions.filter(pos => selectedDrivers.includes(pos.driver_number))
HeatmapSource(enhanced, selected) ==
  SelectSeq(enhanced, LAMBDA pos : Includes(selected, pos.driver_number))

\* the heatmapData memo
HeatmapData(enhanced, selected, mode) ==
  IF Len(enhanced) = 0 \/ mode # "heatmap" THEN << >>
  ELSE LET grid == HeatmapGrid(HeatmapSource(enhanced, selected), << >>)
           mean == [k \in 1..Len(grid) |->
                      Div(grid[k].intensity, Frac(grid[k].count, 1))]
           maxIntensity == MaxIntensity(mean)
       IN [k \in 1..Len(grid) |->
             [x |-> grid[k].x, y |-> grid[k].y, count |-> grid[k].count,
              intensity |-> Div(mean[k], maxIntensity)]]

\* the filteredPositions memo
FilteredPositions(enhanced, window, selected) ==
  IF Len(enhanced) = 0 THEN << >>
  ELSE LET timestamps == SortedInts({enhanced[i].timestamp : i \in 1..Len(enhanced)})
           startIndex == (window.start * Len(timestamps)) \div 100
           endIndex == (window.end * Len(timestamps)) \div 100
           timeRange == Slice(timestamps, startIndex, endIndex)
       IN SelectSeq(enhanced, LAMBDA pos : /\ Includes(timeRange, pos.timestamp)
                                           /\ Includes(selected, pos.driver_number))

\* the driverStats memo: one entry per selected driver with a sample in
\* filteredPositions
DriverStats(filtered, selected) ==
  LET driverPositions(d) == SelectSeq(filtered, LAMBDA p : p.driver_number = d)
      speedsOf(ps) == SelectSeq([k \in 1..Len(ps) |-> OrZero(ps[k].speed)],
                                LAMBDA v : v.n > 0)
      distancesOf(ps) == [k \in 1..Len(ps) |-> OrZero(ps[k].distance)]
      with == SelectSeq(selected, LAMBDA d : Len(driverPositions(d)) > 0)
  IN [k \in 1..Len(with) |->
        LET ps == driverPositions(with[k])
            speeds == speedsOf(ps)
        IN [driver_number |-> with[k],
            maxSpeed |-> MaxOf(speeds),
            avgSpeed |-> Div(SumOf(speeds), Frac(Len(speeds), 1)),
            totalDistance |-> SumOf(distancesOf(ps)),
            positionCount |-> Len(ps)]]

InitAN ==
  /\ view = "AN"
  /\ NoReplay
  /\ rawPositions = << >>
  /\ selectedDrivers = <<"1", "44">>
  /\ analyticsMode = "positions"
  /\ timeWindow = [start |-> 0, end |-> 100]
  /\ enhancedPositions = << >>
  /\ heatmapData = << >>
  /\ filteredPositions = << >>
  /\ result = [op |-> "none"]
  /\ showTrails = TRUE
  /\ trailLength = 20
  /\ NoPath

\* one render: a memo is computed again when one of its dependencies changed
AN_Render(raw, selected, mode, window) ==
  /\ rawPositions' = raw
  /\ selectedDrivers' = selected
  /\ analyticsMode' = mode
  /\ timeWindow' = window
  /\ enhancedPositions' =
       IF raw = rawPositions THEN enhancedPositions ELSE EnhancedPositions(raw)
  /\ heatmapData' =
       IF enhancedPositions' = enhancedPositions /\ selected = selectedDrivers
          /\ mode = analyticsMode
         THEN heatmapData
         ELSE HeatmapData(enhancedPositions', selected, mode)
  /\ filteredPositions' =
       IF enhancedPositions' = enhancedPositions /\ window = timeWindow
          /\ selected = selectedDrivers
         THEN filteredPositions
         ELSE FilteredPositions(enhancedPositions', window, selected)
  /\ UNCHANGED <<view, result>>
  /\ UNCHANGED replayVars /\ UNCHANGED trailVars /\ UNCHANGED loopVars
  /\ ProcessedData

\* the mount effect: setRawPositions(data)
AN_SetRawPositions(data) ==
  /\ view = "AN"
  /\ rawPositions = << >>
  /\ data # << >>
  /\ AN_Render(data, selectedDrivers, analyticsMode, timeWindow)

\* the mode <select>
AN_SetAnalyticsMode(mode) ==
  /\ view = "AN"
  /\ mode # analyticsMode
  /\ AN_Render(rawPositions, selectedDrivers, mode, timeWindow)

\* a driver checkbox
AN_ToggleDriver(d) ==
  /\ view = "AN"
  /\ AN_Render(rawPositions,
               IF Includes(selectedDrivers, d)
                 THEN SelectSeq(selectedDrivers, LAMBDA x : x # d)
                 ELSE Append(selectedDrivers, d),
               analyticsMode, timeWindow)

\* the two range inputs of the time window
AN_SetTimeWindowStart(v) ==
  /\ view = "AN"
  /\ v # timeWindow.start
  /\ AN_Render(rawPositions, selectedDrivers, analyticsMode, [timeWindow EXCEPT !.start = v])

AN_SetTimeWindowEnd(v) ==
  /\ view = "AN"
  /\ v # timeWindow.end
  /\ AN_Render(rawPositions, selectedDrivers, analyticsMode, [timeWindow EXCEPT !.end = v])

NextAN ==
  \/ (rawPositions = << >> /\ \E data \in OrderedRows(AnalyticsSamples) : AN_SetRawPositions(data))
  \/ \E mode \in AnalyticsModes : AN_SetAnalyticsMode(mode)
  \/ AN_ToggleDriver("44")
  \/ \E v \in WindowStarts : AN_SetTimeWindowStart(v)
  \/ \E v \in WindowEnds : AN_SetTimeWindowEnd(v)

----------------------------------------------------------------------------
(* The body of processedData, one turn of its loop at a time, on the samples
   CircuitTracker can hold *)

MaxPath == 4

\* coordinates of samples: two in one cell, two cells at the same distance
\* from it, one that rounds up from a negative half, and cells at and beyond
\* the gap of a new section
PathPoints == {<<100, 100>>, <<110, 90>>, <<200, 100>>, <<100, 200>>,
               <<-25, 100>>, <<700, 100>>, <<1300, 100>>}

\* allPositions: rows in timestamp order that passed the filter
PathSamples ==
  UNION {[1..n -> PathPoints] : n \in 0..MaxPath}

PathRows(q) ==
  [k \in 1..Len(q) |->
     [session_id |-> 1, driver_number |-> "1", timestamp |-> k,
      x_coord |-> q[k][1], y_coord |-> q[k][2]]]

\* the samples of the runs whose termination is checked: a cell, two cells at
\* the same distance from it and a cell beyond the gap of a new section
LoopPoints == {<<100, 100>>, <<200, 100>>, <<100, 200>>, <<700, 100>>}

LoopSamples ==
  UNION {[1..n -> LoopPoints] : n \in 0..MaxPath}

InitPathOn(samples) ==
  /\ view = "PATH"
  /\ mounted = TRUE
  /\ selectedSession = 1
  /\ currentIndex = 0
  /\ isPlaying = FALSE
  /\ replaySpeed = 1
  /\ intervals = {}
  /\ pending = EmptyBag
  /\ pendingInfo = EmptyBag
  /\ \E q \in samples : allPositions = PathRows(q)
  /\ driverInfo = << >>
  /\ driverHistory = << >>
  /\ currentFramePositions = << >>
  /\ allDriverPositions = << >>
  /\ circuitCoordinates = << >>
  /\ replayTimestamps = << >>
  /\ periodFilter = "atual"
  /\ rows = << >>
  /\ raceControlMessages = << >>
  /\ renderedMessages = << >>
  /\ currentMessage = NoMessage
  /\ channel = NoChannel
  /\ weatherData = NoMessage
  /\ temperatureHistory = << >>
  /\ inputs = 0
  /\ last = "mount"
  /\ run = -1
  /\ stopped = FALSE
  /\ sought = -1
  /\ NoAnalytics

InitPath == InitPathOn(PathSamples)

InitLoop == InitPathOn(LoopSamples)

pathFrame == <<view, replayVars, anVars, trailVars>>

\* the body up to the loop: the early returns, or orderedPoints and remaining
Path_Start ==
  /\ view = "PATH"
  /\ ~pathComputed /\ orderedPoints = << >>
  /\ LET cells == TrackPoints(allPositions)
     IN IF cells = << >>
          THEN /\ trackPath' = << >>
               /\ pathComputed' = TRUE
               /\ UNCHANGED loopVars
          ELSE /\ sortedPoints' = cells
               /\ orderedPoints' = <<cells[1]>>
               /\ remaining' = Tail(cells)
               /\ UNCHANGED memoVars
  /\ UNCHANGED pathFrame

\* a turn of the loop that pushes the nearest cell
Path_Place ==
  /\ view = "PATH"
  /\ ~pathComputed /\ orderedPoints # << >> /\ remaining # << >>
  /\ StepOrdered(orderedPoints, remaining) # orderedPoints
  /\ orderedPoints' = StepOrdered(orderedPoints, remaining)
  /\ remaining' = StepRemaining(orderedPoints, remaining)
  /\ UNCHANGED <<sortedPoints, trackPath, pathComputed>>
  /\ UNCHANGED pathFrame

\* a turn of the loop that only splices the nearest cell out
Path_Discard ==
  /\ view = "PATH"
  /\ ~pathComputed /\ orderedPoints # << >> /\ remaining # << >>
  /\ StepOrdered(orderedPoints, remaining) = orderedPoints
  /\ remaining' = StepRemaining(orderedPoints, remaining)
  /\ UNCHANGED <<sortedPoints, orderedPoints, trackPath, pathComputed>>
  /\ UNCHANGED pathFrame

\* after the loop: trackPath
Path_Finish ==
  /\ view = "PATH"
  /\ ~pathComputed /\ orderedPoints # << >> /\ remaining = << >>
  /\ trackPath' = PathOf(orderedPoints)
  /\ pathComputed' = TRUE
  /\ UNCHANGED loopVars
  /\ UNCHANGED pathFrame

NextPath == Path_Start \/ Path_Place \/ Path_Discard \/ Path_Finish

----------------------------------------------------------------------------
(* Specifications *)

Init == InitCT \/ InitOLD \/ InitRC \/ InitWD

Next ==
  \/ \E s \in Sessions : CT_SelectSession(s)
  \/ \E s \in Sessions, f \in 0..MaxFrames : CT_DeliverPositions(s, f)
  \/ \E s \in Sessions : FetchFailed(s)
  \/ \E s \in Sessions : DeliverDriverInfo(s)
  \/ CT_HandlePlay
  \/ CT_HandlePrevious
  \/ CT_HandleNext
  \/ CT_HandleReset
  \/ \E v \in Speeds : CT_SetReplaySpeed(v)
  \/ CT_Tick
  \/ Unmount
  \/ NextOLD
  \/ NextRC
  \/ NextWD

Spec == Init /\ [][Next]_vars

NextCT ==
  \/ \E s \in Sessions : CT_SelectSession(s)
  \/ \E s \in Sessions, f \in 0..MaxFrames : CT_DeliverPositions(s, f)
  \/ \E s \in Sessions : FetchFailed(s)
  \/ \E s \in Sessions : DeliverDriverInfo(s)
  \/ CT_HandlePlay
  \/ CT_HandlePrevious
  \/ CT_HandleNext
  \/ CT_HandleReset
  \/ \E v \in Speeds : CT_SetReplaySpeed(v)
  \/ CT_Tick
  \/ Unmount

SpecCT == InitCT /\ [][NextCT]_vars

NextTrails ==
  \/ NextCT
  \/ CT_SetShowTrails
  \/ \E v \in TrailLengths : CT_SetTrailLength(v)

SpecTrails == InitCT /\ [][NextTrails]_vars

NextOLDView ==
  \/ NextOLD
  \/ \E s \in Sessions : FetchFailed(s)
  \/ Unmount

SpecOLD == InitOLD /\ [][NextOLDView]_vars

NextRCView ==
  \/ NextRC
  \/ \E s \in Sessions : FetchFailed(s)
  \/ Unmount

SpecRC == InitRC /\ [][NextRCView]_vars

NextWDView ==
  \/ NextWD
  \/ \E s \in Sessions : FetchFailed(s)
  \/ Unmount

SpecWD == InitWD /\ [][NextWDView]_vars

SpecData == InitData /\ [][NextData]_vars

SpecAN == InitAN /\ [][NextAN]_vars

SpecPath == InitPath /\ [][NextPath]_vars

\* The loop of processedData under a scheduler that keeps running it
SpecPathFair == InitLoop /\ [][NextPath]_vars /\ WF_vars(NextPath)

\* The replaying views with a fair timer: an interval that stays set keeps firing
InitReplay == InitCT \/ InitOLD \/ InitWD
NextReplay == NextCT \/ NextOLDView \/ NextWDView
SpecReplay ==
  /\ InitReplay /\ [][NextReplay]_vars
  /\ WF_vars(CT_Tick) /\ WF_vars(OLD_Tick) /\ WF_vars(WD_Tick)

\* the analytics with either driver checkbox, the time window left alone
NextHeat ==
  \/ (rawPositions = << >> /\ \E data \in OrderedRows(AnalyticsSamples) : AN_SetRawPositions(data))
  \/ \E mode \in AnalyticsModes : AN_SetAnalyticsMode(mode)
  \/ \E d \in {"1", "44"} : AN_ToggleDriver(d)

SpecHeat == InitAN /\ [][NextHeat]_vars

\* the three views that fold the events of a table into rows
InitLive == InitRC \/ InitWD \/ InitLW

NextLive ==
  \/ NextRC
  \/ NextWD
  \/ NextLW
  \/ \E s \in Sessions : FetchFailed(s)
  \/ Unmount

SpecLive == InitLive /\ [][NextLive]_vars

----------------------------------------------------------------------------
(* Properties *)

\* C1: in every reachable state, if frameCount > 0 then
\* 0 <= currentFrameIndex <= frameCount - 1.
C1_IndexInRange ==
  FrameCount > 0 => (0 <= currentIndex /\ currentIndex <= FrameCount - 1)

\* C2: starting Paused with F > 0 frames, while nothing but timer ticks followed
\* play() (run ticks so far) the index stays within [0, F-1] and is never behind the
\* ticks elapsed (no wrap to 0), and once F ticks elapsed the replay is Paused at F-1.
C2_PlayRunsToEnd ==
  (run >= 0 /\ FrameCount > 0) =>
    /\ currentIndex <= FrameCount - 1
    /\ currentIndex >= Min(run, FrameCount - 1)
    /\ (run >= FrameCount => (Status = "Paused" /\ currentIndex = FrameCount - 1))

\* C3: when frameCount = 0 the status is Idle, also right after play(), and the
\* index play() leaves is still 0.
C3_EmptyIsIdle ==
  FrameCount = 0 => (Status = "Idle" /\ (last = "play" => currentIndex = 0))

\* C4: seek(k), a reset to the start or the selection of the item at timeline
\* index k, leaves currentFrameIndex = clamp(k, 0, frameCount - 1) in every status.
C4_SeekClamps ==
  last \in {"seek", "reset"} => currentIndex = Clamp(sought, 0, FrameCount - 1)

C4_Witness ==
  /\ last = "seek"
  /\ sought = 1
  /\ currentIndex = 1
  /\ isPlaying

\* C5: with frameCount > 0, a step backward or forward sets the index to
\* clamp(currentFrameIndex -/+ 1, 0, frameCount - 1) and leaves the status as it was.
C5_StepClamps ==
  [][(FrameCount > 0 /\ last' \in {"prev", "next"}) =>
       /\ currentIndex' = Clamp(currentIndex + (IF last' = "next" THEN 1 ELSE -1),
                                0, FrameCount - 1)
       /\ isPlaying' = isPlaying]_vars

\* C6: the arrival of a selected session's data leaves the index at 0 and the
\* status Paused (frames) or Idle (no frames): never Playing.
C6_LoadResets ==
  last = "load" => (currentIndex = 0 /\ Status = (IF FrameCount > 0 THEN "Paused" ELSE "Idle"))

\* C7: all the data a mounted view holds belongs to the selected session.
C7_OneSession ==
  (mounted /\ selectedSession # 0) =>
    /\ \A i \in 1..Len(allPositions) : allPositions[i].session_id = selectedSession
    /\ \A i \in 1..Len(driverInfo) : driverInfo[i].session_id = selectedSession
    /\ \A k \in 1..Len(driverHistory) : \A j \in 1..Len(driverHistory[k]) :
         driverHistory[k][j].session_id = selectedSession
    /\ \A i \in 1..Len(rows) : rows[i].session_id = selectedSession

\* C8: after a session switch or an unmount, and until play() is invoked again,
\* no tick changes the index.
C8_NoTickAfterSwitch ==
  [][(stopped /\ last' = "tick") => currentIndex' = currentIndex]_vars

\* C9: at most one interval timer is live at any time.
C9_OneTimer == Cardinality(intervals) <= 1

C9_Witness ==
  /\ last = "speed"
  /\ isPlaying
  /\ \E iv \in intervals : iv.speed = replaySpeed /\ replaySpeed = 2

\* C10: pause() leaves the view not playing (Paused when it holds frames), and a
\* timer is live only while playing, so from a pause() to the next play() no tick
\* changes the index.
C10_PauseStopsTicks ==
  /\ last = "pause" => ~isPlaying
  /\ (last = "pause" /\ FrameCount > 0) => Status = "Paused"
  /\ ~isPlaying => intervals = {}

C10_Witness ==
  /\ last = "pause"
  /\ FrameCount > 1
  /\ currentIndex = 1
  /\ run = -1

\* C11: a speed change leaves the index and the status as they were and, while
\* playing, leaves one timer running at the new speed; the first tick after it
\* moves the index one frame on from where it was (at the last frame it stays).
C11_SetSpeedKeepsPosition ==
  [][((last' = "speed") =>
        (/\ currentIndex' = currentIndex
         /\ isPlaying' = isPlaying
         /\ (\A iv \in intervals' : iv.speed = replaySpeed')
         /\ ((isPlaying /\ FrameCount > 0) => (Cardinality(intervals') = 1))))
     /\ ((last = "speed" /\ last' = "tick") =>
          (currentIndex' = (IF currentIndex < FrameCount - 1
                              THEN currentIndex + 1 ELSE currentIndex)))]_vars

C11_Witness ==
  /\ last = "speed"
  /\ isPlaying
  /\ currentIndex = 1
  /\ replaySpeed = 2
  /\ FrameCount > 2

\* C12: the number of frames is the number of distinct timestamps among the
\* filtered samples, each frame holds exactly the filtered samples of its
\* timestamp, and the frames are in strictly ascending timestamp order.
C12_FramesOfFiltered ==
  (result.op # "none") =>
    LET filtered == result.positions
        frames == result.frames
    IN /\ Len(frames) = Cardinality({filtered[i].timestamp : i \in 1..Len(filtered)})
       /\ \A k \in 1..Len(frames) :
            frames[k].positions =
              SelectSeq(filtered, LAMBDA p : p.timestamp = frames[k].timestamp)
       /\ \A k \in 1..(Len(frames) - 1) :
            frames[k].timestamp < frames[k + 1].timestamp

\* C12 holds of CircuitTracker's timestampGroups
C12_FramesOfFilteredCT ==
  (result.op = "fetchPositions") => C12_FramesOfFiltered

\* C13: the filter's output has no sample with a null x or y and none at
\* (0,0), and is the input restricted to the other samples, in input order.
C13_FilterDropsMalformed ==
  (result.op # "none") =>
    /\ \A i \in 1..Len(result.positions) :
         LET p == result.positions[i]
         IN /\ p.x_coord # NULL
            /\ p.y_coord # NULL
            /\ ~(p.x_coord = 0 /\ p.y_coord = 0)
    /\ result.positions =
         SelectSeq(rawPositions,
                   LAMBDA p : /\ p.x_coord # NULL /\ p.y_coord # NULL
                              /\ ~(p.x_coord = 0 /\ p.y_coord = 0))

\* C13 holds of CircuitTracker's filter
C13_FilterDropsMalformedCT ==
  (result.op = "fetchPositions") => C13_FilterDropsMalformed

\* the EnhancedSamples of entity d, in the order the engine produced them
Own(d) == SelectSeq(enhancedPositions, LAMBDA e : e.driver_number = d)

Entities == {Drivers[k] : k \in 1..Len(Drivers)}

\* C14: the first EnhancedSample of every entity, in timestamp order, has
\* distance, speed and acceleration 0.
C14_FirstSampleZero ==
  \A d \in Entities :
    LET own == Own(d)
        mine == SelectSeq(rawPositions, LAMBDA pos : pos.driver_number = d)
    IN /\ Len(own) = Len(mine)
       /\ (Len(own) > 0) =>
            /\ \A i \in 1..Len(mine) : own[1].timestamp <= mine[i].timestamp
            /\ own[1].distance = Zero
            /\ own[1].speed = Zero
            /\ own[1].acceleration = Zero

C14_Witness ==
  /\ Len(Own("1")) > 0
  /\ Len(Own("44")) > 1
  /\ Own("44")[2].speed # Zero
  /\ Own("44")[1].timestamp > Own("1")[Len(Own("1"))].timestamp

\* C15: for a sample after the first of its entity with deltaT > 0, distance is
\* the Euclidean distance to the entity's previous sample and speed is
\* distance / deltaT.
C15_DistanceAndSpeed ==
  \A d \in Entities :
    LET own == Own(d)
    IN \A i \in 2..Len(own) :
         LET deltaT == own[i].timestamp - own[i - 1].timestamp
             dx == own[i].x_coord - own[i - 1].x_coord
             dy == own[i].y_coord - own[i - 1].y_coord
         IN (deltaT > 0) =>
              /\ own[i].distance.d = 1
              /\ own[i].distance.n >= 0
              /\ own[i].distance.n * own[i].distance.n = dx * dx + dy * dy
              /\ own[i].speed.d > 0
              /\ own[i].speed.n * deltaT = own[i].distance.n * own[i].speed.d

\* (0,0), (300,400), (300,400) at 0 s, 2 s, 3 s: distances 0, 500, 0 and speeds 0, 250, 0
C15_Witness ==
  /\ Len(rawPositions) = 3
  /\ \A i \in 1..3 : rawPositions[i].driver_number = "1"
  /\ <<rawPositions[1].x_coord, rawPositions[1].y_coord, rawPositions[1].timestamp>> = <<0, 0, 0>>
  /\ <<rawPositions[2].x_coord, rawPositions[2].y_coord, rawPositions[2].timestamp>> = <<300, 400, 2>>
  /\ <<rawPositions[3].x_coord, rawPositions[3].y_coord, rawPositions[3].timestamp>> = <<300, 400, 3>>
  /\ [i \in 1..3 |-> enhancedPositions[i].distance] = <<Zero, Frac(500, 1), Zero>>
  /\ [i \in 1..3 |-> enhancedPositions[i].speed] = <<Zero, Frac(250, 1), Zero>>

C17_NonPositiveDeltaT ==
  \A d \in Entities :
    LET own == Own(d)
    IN \A i \in 2..Len(own) :
         (own[i].timestamp - own[i - 1].timestamp <= 0) =>
           /\ own[i].distance = Zero
           /\ own[i].speed = Zero
           /\ own[i].acceleration = Zero

C17_Witness ==
  /\ Len(Own("44")) = 3
  /\ Own("44")[2].speed # Zero
  /\ Own("44")[3].timestamp = Own("44")[2].timestamp
  /\ Own("44")[3].x_coord # Own("44")[2].x_coord
  /\ Own("44")[3].speed = Zero

One == [n |-> 1, d |-> 1]

\* the cells of the heatmap whose normalizedIntensity is v
CellsAt(v) == {k \in 1..Len(heatmapData) : heatmapData[k].intensity = v}

\* C18: when the heatmap has input, every cell's normalizedIntensity lies in
\* [0,1] and the largest is exactly 1; a single populated cell has 1.
C18_NormalizedToOne ==
  (Len(heatmapData) > 0) =>
    /\ \A k \in 1..Len(heatmapData) :
         /\ IsFinite(heatmapData[k].intensity)
         /\ LessEq(Zero, heatmapData[k].intensity)
         /\ LessEq(heatmapData[k].intensity, One)
    /\ CellsAt(One) # {}
    /\ (Len(heatmapData) = 1) => (heatmapData[1].intensity = One)

\* some cell has a nonzero intensity
SomeCellNonzero ==
  \E k \in 1..Len(heatmapData) :
    IsFinite(heatmapData[k].intensity) /\ heatmapData[k].intensity # Zero

\* C19 as stated: whenever some cell has nonzero intensity, exactly one cell
\* has normalizedIntensity 1.
C19_ExactlyOnePeak == SomeCellNonzero => (Cardinality(CellsAt(One)) = 1)

\* C19 as amended: whenever some cell has nonzero intensity, at least one cell
\* has normalizedIntensity 1.
C19_SomePeak == SomeCellNonzero => (CellsAt(One) # {})

C19_Witness ==
  /\ Len(heatmapData) = 2
  /\ heatmapData[1].intensity # Zero
  /\ heatmapData[1].intensity # One
  /\ IsFinite(heatmapData[1].intensity)
  /\ heatmapData[2].intensity = One

\* C20: the heatmap aggregates exactly the EnhancedSamples of the selected
\* entities inside the selected time window: every cell counts the selected,
\* in-window samples of its square, and every such sample has its cell.
C20_HeatmapOfWindow ==
  (analyticsMode = "heatmap") =>
    /\ \A k \in 1..Len(heatmapData) :
         heatmapData[k].count =
           Cardinality({i \in 1..Len(filteredPositions) :
                          /\ GridOf(filteredPositions[i].x_coord) = heatmapData[k].x
                          /\ GridOf(filteredPositions[i].y_coord) = heatmapData[k].y})
    /\ \A i \in 1..Len(filteredPositions) :
         \E k \in 1..Len(heatmapData) :
           /\ GridOf(filteredPositions[i].x_coord) = heatmapData[k].x
           /\ GridOf(filteredPositions[i].y_coord) = heatmapData[k].y

\* the coordinates of the samples of driverNumber in frames 0..index
SamplesUpTo(driverNumber, index) ==
  LET groups == TimestampGroups(allPositions)
      last_t == groups[Min(index, Len(groups) - 1) + 1].timestamp
  IN DriverTrail(SelectSeq(allPositions, LAMBDA p : p.timestamp <= last_t), driverNumber)

\* C21: at frame index i the trail drawn for an entity holds only samples of
\* frames 0..i and is the last K of them (K the trail length).
C21_TrailBehind ==
  (view = "CT" /\ mounted /\ showTrails /\ FrameCount > 0) =>
    \A d \in {Drivers[k] : k \in 1..Len(Drivers)} :
      LET upTo == RecentTrail(SamplesUpTo(d, currentIndex), trailLength)
      IN TrailDrawn(d) = IF Len(upTo) >= 2 THEN upTo ELSE << >>

RECURSIVE FromScratch(_, _)
\* the known positions after frames 0..index of history, each folded once in order
FromScratch(history, index) ==
  IF index < 0 THEN << >>
  ELSE UpdatedPositions(FromScratch(history, index - 1), history[index + 1])

\* C22: once the history of the first session is loaded, the positions exposed at frame
\* index i equal the ones computed from scratch from frames 0..i, however i
\* was reached.
C22_StateFromScratch ==
  (/\ view = "OLD" /\ mounted
   /\ inputs = 0 /\ pending = EmptyBag
   /\ currentIndex < Len(driverHistory)) =>
    allDriverPositions = FromScratch(driverHistory, currentIndex)

PointsOf(seq) == {seq[k] : k \in 1..Len(seq)}
Occurrences(seq, point) == Cardinality({k \in 1..Len(seq) : seq[k] = point})

\* C23: when the loop of processedData is over, every deduplicated cell has
\* been appended to the path exactly once, whatever its distance from the
\* point placed before it.
C23_EveryCellOnce ==
  (view = "PATH" /\ pathComputed) =>
    \A k \in 1..Len(sortedPoints) : Occurrences(orderedPoints, sortedPoints[k]) = 1

\* C23, amended: a turn of the loop appends a cell only when it is nearer than
\* 500 to the point placed last, and appends none only when no remaining cell
\* is that near; so a deduplicated cell appears at most once in the path.
C23_AppendedWithinGap ==
  /\ [](view = "PATH" =>
          /\ \A k \in 1..Len(sortedPoints) : Occurrences(orderedPoints, sortedPoints[k]) <= 1
          /\ \A k \in 1..Len(sortedPoints) : Occurrences(trackPath, sortedPoints[k]) <= 1
          /\ PointsOf(trackPath) \subseteq PointsOf(sortedPoints))
  /\ [][(view = "PATH" /\ orderedPoints # << >> /\ remaining' # remaining) =>
          (IF orderedPoints' # orderedPoints
             THEN /\ Len(orderedPoints') = Len(orderedPoints) + 1
                  /\ SquaredDistance(orderedPoints'[Len(orderedPoints')],
                                     orderedPoints[Len(orderedPoints)]) < 500 * 500
             ELSE \A r \in PointsOf(remaining) :
                    SquaredDistance(r, orderedPoints[Len(orderedPoints)]) >= 500 * 500)]_vars

\* a finished path of several points that left a cell out
C23_Witness ==
  /\ view = "PATH" /\ pathComputed
  /\ Len(trackPath) >= 2
  /\ Len(orderedPoints) < Len(sortedPoints)

\* C26: tick, previous, next, reset, play, pause and the speed selector leave
\* trackPath as it was and do not run the body of processedData; the body
\* runs, and trackPath changes, only in the commit that stores the samples
\* of a session.
C26_PathOncePerSession ==
  [][(view = "CT") =>
       (/\ (last' \in {"tick", "prev", "next", "reset", "play", "pause", "speed"}) =>
             (trackPath' = trackPath /\ ~pathComputed')
        /\ (pathComputed' \/ trackPath' # trackPath) => (last' = "load")
        /\ (last' = "load") => pathComputed')]_vars

\* a tick moved the replay while a path of several points is held
C26_Witness ==
  /\ view = "CT" /\ mounted
  /\ last = "tick" /\ currentIndex > 0
  /\ Len(trackPath) >= 3
  /\ ~pathComputed

\* C29: a turn of the loop takes out of remaining exactly one cell, one at the
\* least distance from the point placed last, and puts nothing back; the cell
\* it appends, if any, is that one.
C29_NearestPlaced ==
  [][(view = "PATH" /\ orderedPoints # << >> /\ remaining' # remaining) =>
       (\E n \in 1..Len(remaining) :
          /\ \A r \in PointsOf(remaining) :
               SquaredDistance(remaining[n], orderedPoints[Len(orderedPoints)])
                 <= SquaredDistance(r, orderedPoints[Len(orderedPoints)])
          /\ remaining' = SubSeq(remaining, 1, n - 1) \o SubSeq(remaining, n + 1, Len(remaining))
          /\ remaining[n] \notin PointsOf(remaining')
          /\ orderedPoints' \in {orderedPoints, Append(orderedPoints, remaining[n])})]_vars

\* a finished path whose second point is not the second cell of the data
C29_Witness ==
  /\ view = "PATH" /\ pathComputed
  /\ Len(orderedPoints) >= 3
  /\ orderedPoints[2] # sortedPoints[2]

\* the statistics shown for the selected drivers
driverStats == DriverStats(filteredPositions, selectedDrivers)

\* C24: every speed, acceleration and distance of an enhanced sample, every
\* intensity of a heatmap cell and every maximum and average speed of the
\* driver statistics is a finite number.
C24_DerivedFinite ==
  (view = "AN") =>
    /\ \A k \in 1..Len(enhancedPositions) :
         /\ IsFinite(enhancedPositions[k].speed)
         /\ IsFinite(enhancedPositions[k].acceleration)
         /\ IsFinite(enhancedPositions[k].distance)
    /\ \A k \in 1..Len(heatmapData) : IsFinite(heatmapData[k].intensity)
    /\ \A k \in 1..Len(driverStats) :
         /\ IsFinite(driverStats[k].maxSpeed)
         /\ IsFinite(driverStats[k].avgSpeed)

IdsOf(s) == {s[k].id : k \in 1..Len(s)}
RowsOfId(s, id) == SelectSeq(s, LAMBDA r : r.id = id)

C27_SpeedDistanceNonNegative ==
  \A k \in 1..Len(enhancedPositions) :
    /\ IsFinite(enhancedPositions[k].speed)
    /\ LessEq(Zero, enhancedPositions[k].speed)
    /\ IsFinite(enhancedPositions[k].distance)
    /\ LessEq(Zero, enhancedPositions[k].distance)

\* a driver moved towards the origin and slowed down: a sample with positive
\* distance and speed whose coordinates decreased, and one with a negative
\* acceleration
C27_Witness ==
  /\ \E k \in 2..Len(enhancedPositions) :
       /\ enhancedPositions[k].driver_number = enhancedPositions[k - 1].driver_number
       /\ enhancedPositions[k].x_coord < enhancedPositions[k - 1].x_coord
       /\ enhancedPositions[k].distance.n > 0
       /\ enhancedPositions[k].speed.n > 0
  /\ \E k \in 1..Len(enhancedPositions) : enhancedPositions[k].acceleration.n < 0

\* C28: in heatmap mode, when no enhanced sample is of a selected driver (no
\* driver selected, or no sample at all), the heatmap is the empty list.
C28_EmptyHeatmap ==
  (/\ view = "AN"
   /\ analyticsMode = "heatmap"
   /\ \A k \in 1..Len(enhancedPositions) :
        ~Includes(selectedDrivers, enhancedPositions[k].driver_number)) =>
    heatmapData = << >>

\* heatmap mode with samples held and every driver deselected
C28_Witness ==
  /\ view = "AN"
  /\ analyticsMode = "heatmap"
  /\ Len(enhancedPositions) > 0
  /\ selectedDrivers = << >>
  /\ heatmapData = << >>

\* C30: once no fetch is in flight, whatever the order in which the responses
\* came, the positions and rows a mounted view holds are of the selected
\* session.
C30_SettledOnSelected ==
  (/\ mounted /\ selectedSession # 0
   /\ pending = EmptyBag /\ pendingInfo = EmptyBag) =>
    /\ \A i \in 1..Len(allPositions) : allPositions[i].session_id = selectedSession
    /\ \A k \in 1..Len(driverHistory) : \A j \in 1..Len(driverHistory[k]) :
         driverHistory[k][j].session_id = selectedSession
    /\ \A i \in 1..Len(rows) : rows[i].session_id = selectedSession


\* C31: no delivered live event is lost. Once the response of the initial fetch
\* and a live INSERT event of the selected session have both been processed, in
\* either order, the held rows contain the inserted row: the row is held right
\* after its event, and it is still held when the response of the fetch of the
\* subscribed session is processed right after the event.
FetchOfChannel(p) ==
  IF view = "LW" THEN p.session = 0
  ELSE p.session = channel.session /\ p.periodFilter = channel.periodFilter

C31_InsertNotLost ==
  /\ []((view \in {"RC", "WD", "LW"} /\ last \in {"upsert", "insert"})
          => (sought \in IdsOf(rows)))
  /\ [][(/\ view \in {"RC", "WD", "LW"}
         /\ last \in {"upsert", "insert"}
         /\ last' = "load"
         /\ \E p \in BagToSet(pending) :
              FetchOfChannel(p) /\ pending' = RemoveFromBag(pending, p))
          => (sought \in IdsOf(rows'))]_vars


\* C32: the rows of a replayable view stay ordered ascending by timestamp after
\* any sequence of live INSERT, UPDATE and DELETE events applied to the
\* ascending response of the initial fetch.
Ascending(s) == \A i \in 1..Len(s) - 1 : s[i].timestamp <= s[i + 1].timestamp

C32_RowsAscending == (view \in {"RC", "WD"}) => Ascending(rows)


\* C33: the held rows never contain two entries with the same id, after any
\* sequence of fetch responses and live events, an INSERT event of a row the
\* fetch already returned included.
C33_UniqueIds ==
  (view \in {"RC", "WD", "LW"}) =>
    \A i, j \in 1..Len(rows) : (rows[i].id = rows[j].id) => (i = j)


\* C34: the current frame index is never negative in any reachable state, the
\* states with no frame at all and a step forward or backward included.
C34_IndexNotNegative == currentIndex >= 0


\* C35: in the weather view the temperature history stays aligned with the rows
\* after live events: both have the same length and the point at each position
\* is the point derived from the row at that position.
C35_HistoryAligned ==
  (view = "WD") =>
    /\ Len(temperatureHistory) = Len(rows)
    /\ \A i \in 1..Len(rows) : temperatureHistory[i] = HistoryPoint(rows[i])


\* C36: in historical mode, whenever no effect is pending, the message displayed
\* is rows[currentIndex], a defined row, after any sequence of ticks, steps,
\* list selections and live events. Every state of the model is a state after
\* the effects of a commit have run; the states looked at hold at least one row
\* and have no fetch in flight.
C36_MessageIsCurrentRow ==
  (/\ view = "RC" /\ mounted
   /\ periodFilter = "historico"
   /\ pending = EmptyBag
   /\ Len(rows) > 0)
    => /\ currentIndex \in 0..(Len(rows) - 1)
       /\ currentMessage = rows[currentIndex + 1]


\* C37: the list of messages displayed never holds more than 10 entries and
\* never holds two entries with the same id, after any sequence of live events,
\* mode changes and replay actions: neither the list rendered when a handler
\* has committed nor the list its effects leave.
UniqueIds(list) == \A i, j \in 1..Len(list) : (list[i].id = list[j].id) => (i = j)

C37_ListBoundedUnique ==
  (view = "RC") =>
    /\ Len(renderedMessages) <= ListMax /\ UniqueIds(renderedMessages)
    /\ Len(raceControlMessages) <= ListMax /\ UniqueIds(raceControlMessages)


\* C38: under fair scheduling of the timer, a replay that is Playing with
\* frameCount > 0 and receives no further user action eventually reaches the
\* status Paused with currentFrameIndex = frameCount - 1, and each tick on the
\* way increases the index by exactly one. run >= 0 holds from play() on as
\* long as nothing but ticks happened.
C38_ReplayRunsToEnd ==
  /\ (run >= 0 /\ isPlaying /\ FrameCount > 0)
       ~> ((~isPlaying /\ currentIndex = FrameCount - 1) \/ run = -1)
  /\ [][(run >= 0 /\ run' >= 0 /\ last' = "tick" /\ isPlaying /\ isPlaying')
          => (currentIndex' = currentIndex + 1)]_vars


\* C39: the loop that orders the track path terminates for every finite set of
\* candidates: each turn takes exactly one candidate out of remaining, the body
\* of processedData reaches its end, and the path it leaves names no candidate
\* twice and only candidates.
C39_LoopTerminates ==
  /\ (view = "PATH" /\ ~pathComputed) ~> (pathComputed /\ remaining = << >>)
  /\ [][(view = "PATH" /\ ~pathComputed /\ orderedPoints # << >> /\ remaining # << >>)
          => (/\ Len(remaining') = Len(remaining) - 1
              /\ \A point \in PointsOf(remaining') :
                   Occurrences(remaining', point) <= Occurrences(remaining, point)
              /\ ~pathComputed')]_vars
  /\ [](view = "PATH" =>
          /\ \A k \in 1..Len(orderedPoints) : Occurrences(orderedPoints, orderedPoints[k]) = 1
          /\ \A k \in 1..Len(trackPath) : Occurrences(trackPath, trackPath[k]) = 1
          /\ PointsOf(orderedPoints) \subseteq PointsOf(sortedPoints)
          /\ PointsOf(trackPath) \subseteq PointsOf(sortedPoints))

\* the loop ran three turns or more and the body left a path
C39_Witness ==
  /\ view = "PATH" /\ pathComputed /\ remaining = << >>
  /\ Len(sortedPoints) >= 4
  /\ Len(trackPath) >= 3

====
